---- MODULE Spec2Model ----
(***************************************************************************)
(* Model of the DeepBook Rust SDK transaction composition engine:          *)
(* configuration registry, object reference resolver, argument composer    *)
(* and authorization proof deriver, acting on a programmable transaction   *)
(* builder (the argument buffer).                                          *)
(*                                                                         *)
(* Text that the program parses (object addresses, client order ids) is a  *)
(* tuple of one-character strings; text that is only compared (keys,       *)
(* module and function names) is a string.  An unsigned 64-bit value is    *)
(* the tuple of its 8 little-endian bytes, which is also its BCS encoding. *)
(***************************************************************************)
EXTENDS Integers, Sequences, FiniteSets, TLC

VARIABLES config, ptb, last, nops

vars == <<config, ptb, last, nops>>

\* ------------------------------------------------------------------------
\* Option<T>
NoneV == [some |-> FALSE, v |-> <<>>]
Some(x) == [some |-> TRUE, v |-> x]

\* Option::unwrap_or
unwrap_or(opt, default) == IF opt.some THEN opt.v ELSE default

\* ------------------------------------------------------------------------
\* Hexadecimal object addresses

HexVal ==
  [c \in {"0","1","2","3","4","5","6","7","8","9",
          "a","b","c","d","e","f","A","B","C","D","E","F"} |->
     CASE c = "0" -> 0 [] c = "1" -> 1 [] c = "2" -> 2 [] c = "3" -> 3
       [] c = "4" -> 4 [] c = "5" -> 5 [] c = "6" -> 6 [] c = "7" -> 7
       [] c = "8" -> 8 [] c = "9" -> 9
       [] c \in {"a","A"} -> 10 [] c \in {"b","B"} -> 11
       [] c \in {"c","C"} -> 12 [] c \in {"d","D"} -> 13
       [] c \in {"e","E"} -> 14 [] c \in {"f","F"} -> 15]

RECURSIVE StripZeros(_)
StripZeros(ds) ==
  IF ds = <<>> THEN <<>>
  ELSE IF Head(ds) = 0 THEN StripZeros(Tail(ds)) ELSE ds

\* ObjectID::from_hex_literal: the text must start with "0x" and carry at
\* most 64 hexadecimal digits; shorter literals are left-padded with zeros,
\* so the identifier is the digit string without its leading zeros.
ObjectID_from_hex_literal(s) ==
  IF Len(s) < 2 \/ s[1] # "0" \/ s[2] # "x"
    THEN [ok |-> FALSE, id |-> <<>>]
  ELSE IF Len(s) - 2 > 64 \/ \E i \in 3..Len(s) : s[i] \notin DOMAIN HexVal
    THEN [ok |-> FALSE, id |-> <<>>]
  ELSE [ok |-> TRUE,
        id |-> StripZeros([i \in 1..(Len(s) - 2) |-> HexVal[s[i + 2]]])]

\* SUI_CLOCK_OBJECT_ID.to_string(): the clock object lives at address 0x6.
SUI_CLOCK_OBJECT_ID == <<"0", "x", "6">>

\* ------------------------------------------------------------------------
\* BCS encoding of the primitive values that become pure arguments

RECURSIVE LeBytes(_, _)
LeBytes(n, w) ==
  IF w = 0 THEN <<>> ELSE <<n % 256>> \o LeBytes(n \div 256, w - 1)

\* a small natural as a u64 (8 little-endian bytes)
U64(n) == LeBytes(n, 8)

\* u64::MAX
U64_MAX == [i \in 1..8 |-> 255]

Bcs_u8(n) == <<n>>
Bcs_bool(b) == IF b THEN <<1>> ELSE <<0>>
Bcs_u64(bytes) == bytes

\* str::parse::<u64>: an optional leading "+", then decimal digits only;
\* empty text, a non-digit, or a value above u64::MAX is an error.
DecVal ==
  [c \in {"0","1","2","3","4","5","6","7","8","9"} |->
     CASE c = "0" -> 0 [] c = "1" -> 1 [] c = "2" -> 2 [] c = "3" -> 3
       [] c = "4" -> 4 [] c = "5" -> 5 [] c = "6" -> 6 [] c = "7" -> 7
       [] c = "8" -> 8 [] c = "9" -> 9]

\* bytes * m + c on little-endian bytes, with the carry out of the top byte
RECURSIVE MulAddLE(_, _, _)
MulAddLE(bs, m, c) ==
  IF bs = <<>> THEN [bytes |-> <<>>, carry |-> c]
  ELSE LET t == Head(bs) * m + c
           r == MulAddLE(Tail(bs), m, t \div 256)
       IN [bytes |-> <<t % 256>> \o r.bytes, carry |-> r.carry]

RECURSIVE ParseDigits(_, _)
ParseDigits(ds, acc) ==
  IF ds = <<>> THEN [ok |-> TRUE, v |-> acc]
  ELSE IF Head(ds) \notin DOMAIN DecVal THEN [ok |-> FALSE, v |-> acc]
  ELSE LET r == MulAddLE(acc, 10, DecVal[Head(ds)])
       IN IF r.carry # 0 THEN [ok |-> FALSE, v |-> acc]
          ELSE ParseDigits(Tail(ds), r.bytes)

parse_u64(s) ==
  IF s = <<>> THEN [ok |-> FALSE, v |-> U64(0)]
  ELSE LET ds == IF Head(s) = "+" THEN Tail(s) ELSE s
       IN IF ds = <<>> THEN [ok |-> FALSE, v |-> U64(0)]
          ELSE ParseDigits(ds, U64(0))

\* ------------------------------------------------------------------------
\* Unbounded naturals as little-endian base-256 digits (no leading zero
\* digit at the top; <<>> is zero), for 64-bit and floating-point values.

RECURSIVE BigStrip(_)
BigStrip(a) ==
  IF a = <<>> THEN <<>>
  ELSE IF a[Len(a)] = 0 THEN BigStrip(SubSeq(a, 1, Len(a) - 1)) ELSE a

RECURSIVE BigOfNat(_)
BigOfNat(n) == IF n = 0 THEN <<>> ELSE <<n % 256>> \o BigOfNat(n \div 256)

Pow2 == [k \in 0..8 |-> CASE k = 0 -> 1 [] k = 1 -> 2 [] k = 2 -> 4
                          [] k = 3 -> 8 [] k = 4 -> 16 [] k = 5 -> 32
                          [] k = 6 -> 64 [] k = 7 -> 128 [] k = 8 -> 256]

RECURSIVE BitLenByte(_)
BitLenByte(x) == IF x = 0 THEN 0 ELSE 1 + BitLenByte(x \div 2)

\* number of significant bits
BigBitLen(a) ==
  LET s == BigStrip(a)
  IN IF s = <<>> THEN 0 ELSE 8 * (Len(s) - 1) + BitLenByte(s[Len(s)])

\* bit i (0 = least significant)
BigBit(a, i) ==
  IF i \div 8 + 1 > Len(a) THEN 0
  ELSE (a[i \div 8 + 1] \div Pow2[i % 8]) % 2

\* a * m + c for a small m and c
BigMulAdd(a, m, c) ==
  LET r == MulAddLE(a, m, c)
  IN BigStrip(r.bytes \o BigOfNat(r.carry))

\* a shifted left by k bits
BigShl(a, k) ==
  IF a = <<>> THEN <<>>
  ELSE [i \in 1..(k \div 8) |-> 0] \o BigMulAdd(a, Pow2[k % 8], 0)

\* a shifted right by k bits (the low bits are dropped)
BigShr(a, k) ==
  LET n == k \div 8
      r == k % 8
      hi == IF n >= Len(a) THEN <<>> ELSE SubSeq(a, n + 1, Len(a))
  IN BigStrip([i \in 1..Len(hi) |->
        (hi[i] \div Pow2[r]) +
        (IF i < Len(hi) THEN (hi[i + 1] % Pow2[r]) * Pow2[8 - r] ELSE 0)])

\* the low k bits of a
BigLow(a, k) ==
  LET n == k \div 8
      r == k % 8
  IN BigStrip([i \in 1..(IF n + 1 <= Len(a) THEN n + 1
                         ELSE Len(a)) |->
        IF i = n + 1 THEN a[i] % Pow2[r] ELSE a[i]])

RECURSIVE BigCmpFrom(_, _, _)
BigCmpFrom(a, b, i) ==
  IF i = 0 THEN 0
  ELSE IF a[i] > b[i] THEN 1
  ELSE IF a[i] < b[i] THEN -1
  ELSE BigCmpFrom(a, b, i - 1)

\* -1, 0, 1 as a < b, a = b, a > b (both stripped)
BigCmp(a, b) ==
  IF Len(a) > Len(b) THEN 1
  ELSE IF Len(a) < Len(b) THEN -1
  ELSE BigCmpFrom(a, b, Len(a))

RECURSIVE BigAddFrom(_, _, _, _)
BigAddFrom(a, b, i, c) ==
  IF i > Len(a) /\ i > Len(b) THEN BigOfNat(c)
  ELSE LET t == (IF i <= Len(a) THEN a[i] ELSE 0) +
                (IF i <= Len(b) THEN b[i] ELSE 0) + c
       IN <<t % 256>> \o BigAddFrom(a, b, i + 1, t \div 256)

BigAdd(a, b) == BigStrip(BigAddFrom(a, b, 1, 0))

RECURSIVE BigSubFrom(_, _, _, _)
BigSubFrom(a, b, i, c) ==
  IF i > Len(a) THEN <<>>
  ELSE LET t == a[i] - (IF i <= Len(b) THEN b[i] ELSE 0) - c
       IN <<(t + 256) % 256>> \o
          BigSubFrom(a, b, i + 1, IF t < 0 THEN 1 ELSE 0)

\* a - b for a >= b
BigSub(a, b) == BigStrip(BigSubFrom(a, b, 1, 0))

RECURSIVE BigMulFrom(_, _, _)
BigMulFrom(a, b, i) ==
  IF i > Len(b) THEN <<>>
  ELSE BigAdd([j \in 1..(i - 1) |-> 0] \o BigMulAdd(a, b[i], 0),
              BigMulFrom(a, b, i + 1))

BigMul(a, b) == IF a = <<>> \/ b = <<>> THEN <<>> ELSE BigMulFrom(a, b, 1)

\* the largest digit in d..d+2*step-1 whose product with b is at most r
\* (d is one such digit or 0), by halving the step
RECURSIVE BigDivDigitFrom(_, _, _, _)
BigDivDigitFrom(r, b, d, step) ==
  IF step = 0 THEN d
  ELSE IF BigCmp(r, BigMulAdd(b, d + step, 0)) >= 0
    THEN BigDivDigitFrom(r, b, d + step, step \div 2)
  ELSE BigDivDigitFrom(r, b, d, step \div 2)

\* the largest digit d in 0..255 with d * b <= r, for r < 256 * b
BigDivDigit(r, b) == BigDivDigitFrom(r, b, 0, 128)

\* long division, one byte of the dividend at a time from the top:
\* the quotient and remainder of (a without its i-1 low bytes) / b, b > 0
\* (the remainder of the higher bytes is smaller than b)
RECURSIVE BigDivFrom(_, _, _)
BigDivFrom(a, b, i) ==
  IF i > Len(a) THEN [q |-> <<>>, r |-> <<>>]
  ELSE LET hi == BigDivFrom(a, b, i + 1)
           r2 == BigStrip(<<a[i]>> \o hi.r)
           d == BigDivDigit(r2, b)
       IN IF Len(hi.r) > Len(b) THEN hi
          ELSE [q |-> BigStrip(<<d>> \o hi.q),
                r |-> BigSub(r2, BigMulAdd(b, d, 0))]

BigDivMod(a, b) == BigDivFrom(a, b, 1)

\* ------------------------------------------------------------------------
\* f64: a finite value is (-1)^neg * m * 2^e, where m = 0 (and e = 0), or
\* 2^52 <= m < 2^53 and -1074 <= e <= 971 (normal), or 0 < m < 2^52 and
\* e = -1074 (subnormal).  Above the largest finite value a result is an
\* infinity; below 2^-1022 it is rounded to a multiple of 2^-1074.

F64Zero == [kind |-> "finite", neg |-> FALSE, m |-> <<>>, e |-> 0]
F64NaN == [kind |-> "nan", neg |-> FALSE, m |-> <<>>, e |-> 0]
F64Inf(neg) == [kind |-> "inf", neg |-> neg, m |-> <<>>, e |-> 0]

\* the finite f64 with mantissa m and exponent e
F64Finite(neg, m, e) == [kind |-> "finite", neg |-> neg, m |-> m, e |-> e]

\* a rounded mantissa that grew to 54 bits is a power of two: halve it;
\* a mantissa rounded to nothing is a zero, an exponent above the range an
\* infinity
F64Pack(neg, q, e) ==
  IF q = <<>> THEN F64Finite(neg, <<>>, 0)
  ELSE IF BigBitLen(q) > 53
    THEN IF e + 1 > 971 THEN F64Inf(neg)
         ELSE F64Finite(neg, BigShr(q, 1), e + 1)
  ELSE IF e > 971 THEN F64Inf(neg)
  ELSE F64Finite(neg, q, e)

\* q is the mantissa cut to 53 bits and c compares what was cut off with one
\* half: up when above, or at one half with more below (sticky) or q odd
F64RoundUp(neg, q, e, c, sticky) ==
  F64Pack(neg,
          IF c > 0 \/ (c = 0 /\ (sticky \/ BigBit(q, 0) = 1))
            THEN BigMulAdd(q, 1, 1) ELSE q,
          e)

\* M has L bits and the result has exponent e: 53 bits are kept, fewer
\* when that would take the exponent below -1074
F64RoundTo(neg, M, E, sticky, e) ==
  IF e <= E THEN F64Pack(neg, BigShl(M, E - e), e)
  ELSE F64RoundUp(neg, BigShr(M, e - E), e,
                  BigCmp(BigLow(M, e - E), BigShl(<<1>>, e - E - 1)),
                  sticky)

F64RoundLen(neg, M, E, sticky, L) ==
  IF L = 0 THEN F64Finite(neg, <<>>, 0)
  ELSE F64RoundTo(neg, M, E, sticky,
                  IF E + L - 53 < 0 - 1074 THEN 0 - 1074 ELSE E + L - 53)

\* the nearest f64 to (-1)^neg * M * 2^E, ties to even; sticky says that
\* the exact value lies strictly above M * 2^E (and below (M+1) * 2^E)
F64Round(neg, M, E, sticky) == F64RoundLen(neg, M, E, sticky, BigBitLen(M))

\* `n as f64` for an unsigned integer n
u64_as_f64(n) == F64Round(FALSE, BigOfNat(n), 0, FALSE)

\* a * b
f64_mul(a, b) ==
  IF a.kind = "nan" \/ b.kind = "nan" THEN F64NaN
  ELSE IF a.kind = "inf" \/ b.kind = "inf"
    THEN IF (a.kind = "finite" /\ a.m = <<>>) \/
            (b.kind = "finite" /\ b.m = <<>>)
           THEN F64NaN ELSE F64Inf(a.neg # b.neg)
  ELSE F64Round(a.neg # b.neg, BigMul(a.m, b.m), a.e + b.e, FALSE)

\* the nearest f64 to a quotient d.q * 2^e whose remainder is d.r
F64RoundDiv(neg, d, e) == F64Round(neg, d.q, e, d.r # <<>>)

\* the bits the dividend is shifted by: the quotient has 57 bits or more
F64DivShift(a, b) ==
  IF BigBitLen(b) > BigBitLen(a) THEN 57 + (BigBitLen(b) - BigBitLen(a))
  ELSE 57

\* a / b: 57 quotient bits or more, and the remainder as the sticky bit
f64_div(a, b) ==
  IF a.kind = "nan" \/ b.kind = "nan" THEN F64NaN
  ELSE IF a.kind = "inf"
    THEN IF b.kind = "inf" THEN F64NaN ELSE F64Inf(a.neg # b.neg)
  ELSE IF b.kind = "inf" THEN [F64Zero EXCEPT !.neg = (a.neg # b.neg)]
  ELSE IF b.m = <<>>
    THEN IF a.m = <<>> THEN F64NaN ELSE F64Inf(a.neg # b.neg)
  ELSE IF a.m = <<>> THEN [F64Zero EXCEPT !.neg = (a.neg # b.neg)]
  ELSE F64RoundDiv(a.neg # b.neg,
                   BigDivMod(BigShl(a.m, F64DivShift(a.m, b.m)), b.m),
                   a.e - b.e - F64DivShift(a.m, b.m))

\* f64::round: to the nearest integer, halves away from zero
f64_round(a) ==
  IF a.kind # "finite" \/ a.m = <<>> \/ a.e >= 0 THEN a
  ELSE IF -a.e > 53 THEN [F64Zero EXCEPT !.neg = a.neg]
  ELSE LET q == BigShr(a.m, -a.e)
           up == BigBit(a.m, -a.e - 1) = 1
       IN F64Round(a.neg, IF up THEN BigMulAdd(q, 1, 1) ELSE q, 0, FALSE)

\* the 8 bytes of a value below 2^64
PadU64(v) == v \o [i \in 1..(8 - Len(v)) |-> 0]

\* `x as u64`: toward zero, NaN and negatives to 0, too large to u64::MAX
f64_as_u64(a) ==
  IF a.kind = "nan" THEN U64(0)
  ELSE IF a.neg THEN U64(0)
  ELSE IF a.kind = "inf" THEN U64_MAX
  ELSE IF a.m = <<>> THEN U64(0)
  ELSE IF a.e >= 0
    THEN IF 53 + a.e > 64 THEN U64_MAX ELSE PadU64(BigShl(a.m, a.e))
  ELSE IF -a.e >= 53 THEN U64(0)
  ELSE PadU64(BigShr(a.m, -a.e))

\* ------------------------------------------------------------------------
\* ProgrammableTransactionBuilder: an insertion-ordered map of inputs keyed
\* by pure bytes or by object id, and a list of commands.

\* Argument
GasCoin == [a |-> "GasCoin", i |-> 0]
Input(i) == [a |-> "Input", i |-> i]
Result(i) == [a |-> "Result", i |-> i]

\* CallArg::Pure(bytes), keyed BuilderArg::Pure(bytes)
PureInput(bytes) ==
  [k |-> "Pure", bytes |-> bytes, id |-> <<>>, okind |-> "-",
   ver |-> 0, mutable |-> FALSE]

\* CallArg::Object(ObjectArg::SharedObject{id, initial_shared_version, mutable})
SharedObject(id, initial_shared_version, mutable) ==
  [k |-> "Object", bytes |-> <<>>, id |-> id, okind |-> "SharedObject",
   ver |-> initial_shared_version, mutable |-> mutable]

\* CallArg::Object(ObjectArg::ImmOrOwnedObject((id, version, digest)))
ImmOrOwnedObject(id, version) ==
  [k |-> "Object", bytes |-> <<>>, id |-> id, okind |-> "ImmOrOwnedObject",
   ver |-> version, mutable |-> FALSE]

\* ProgrammableTransactionBuilder::new
NewPtb == [inputs |-> <<>>, commands |-> <<>>]

\* the BuilderArg key of an input
SameKey(x, y) ==
  /\ x.k = y.k
  /\ IF x.k = "Pure" THEN x.bytes = y.bytes ELSE x.id = y.id

\* IndexMap::insert_full: an existing key keeps its index and takes the new
\* value; a new key is appended.  Indices are 0-based.
insert_full(inputs, x) ==
  IF \E i \in 1..Len(inputs) : SameKey(inputs[i], x)
    THEN LET i == CHOOSE j \in 1..Len(inputs) : SameKey(inputs[j], x)
         IN [inputs |-> [inputs EXCEPT ![i] = x], index |-> i - 1]
    ELSE [inputs |-> Append(inputs, x), index |-> Len(inputs)]

\* the buffer and the argument after insert_full answered r
PureInsert(b, r) ==
  [ptb |-> [b EXCEPT !.inputs = r.inputs], arg |-> Input(r.index)]

\* ProgrammableTransactionBuilder::pure
PtbPure(b, bytes) == PureInsert(b, insert_full(b.inputs, PureInput(bytes)))

\* the buffer and the argument after insert_full answered r
ObjInsert(b, r) ==
  [ok |-> TRUE, ptb |-> [b EXCEPT !.inputs = r.inputs],
   arg |-> Input(r.index)]

\* the object is among the inputs as `old`
ObjMerge(b, old, o) ==
  IF /\ old.okind = "SharedObject" /\ o.okind = "SharedObject"
     /\ old.ver = o.ver
    THEN ObjInsert(b, insert_full(b.inputs,
                        [o EXCEPT !.mutable = old.mutable \/ o.mutable]))
  ELSE IF old = o THEN ObjInsert(b, insert_full(b.inputs, o))
  ELSE [ok |-> FALSE, ptb |-> b, arg |-> GasCoin]

\* ProgrammableTransactionBuilder::obj: an object already among the inputs
\* must be given the same way again; two shared uses of the same version
\* merge their mutability, anything else that differs is an error.
PtbObj(b, o) ==
  IF \E i \in 1..Len(b.inputs) : SameKey(b.inputs[i], o)
    THEN ObjMerge(b, b.inputs[CHOOSE j \in 1..Len(b.inputs) :
                                SameKey(b.inputs[j], o)], o)
    ELSE ObjInsert(b, insert_full(b.inputs, o))

\* ProgrammableTransactionBuilder::command
PtbCommand(b, cmd) ==
  [ptb |-> [b EXCEPT !.commands = Append(b.commands, cmd)],
   arg |-> Result(Len(b.commands))]

\* Command::MoveCall
MoveCall(package, module, function, type_arguments, arguments) ==
  [c |-> "MoveCall", package |-> package, module |-> module,
   function |-> function, targs |-> type_arguments, args |-> arguments]

\* Command::SplitCoins(coin, amounts)
SplitCoins(coin, amounts) ==
  [c |-> "SplitCoins", package |-> <<>>, module |-> "", function |-> "",
   targs |-> <<>>, args |-> <<coin>> \o amounts]

\* ProgrammableTransactionBuilder::programmable_move_call
programmable_move_call(b, package, module, function, targs, args) ==
  PtbCommand(b, MoveCall(package, module, function, targs, args))

\* ------------------------------------------------------------------------
\* Default tables of the two environments (utils/constants.rs)

\* constants.rs: TESTNET_PACKAGE_IDS (line 35)
TESTNET_PACKAGE_IDS ==
  [deepbook_package_id |->
     <<"0","x","c","b","f","4","7","4","8","a","9","6","5","d","4","6","9",
     "e","a","3","a","3","6","c","f","0","c","c","c","5","7","4","3","b","9",
     "6","c","2","d","0","a","e","6","d","e","e","0","7","6","2","e","d","3",
     "e","c","a","6","5","f","a","c","0","7","f","7","e">>,
   registry_id |->
     <<"0","x","9","8","d","a","c","e","8","3","0","e","b","e","b","d","4",
     "4","b","7","a","3","3","3","1","c","0","0","7","5","0","b","f","7","5",
     "8","f","8","a","4","b","1","7","a","2","7","3","8","0","f","5","b","b",
     "3","f","b","e","6","8","c","b","9","8","4","a","7">>,
   deep_treasury_id |->
     <<"0","x","6","9","f","f","f","d","a","e","0","0","7","5","f","8","f",
     "7","1","f","4","f","a","7","9","3","5","4","9","c","1","1","0","7","9",
     "2","6","6","9","1","0","e","8","9","0","5","1","6","9","8","4","5","a",
     "f","1","f","5","d","0","0","e","0","9","d","c","b">>]

\* constants.rs: MAINNET_PACKAGE_IDS (line 41)
MAINNET_PACKAGE_IDS ==
  [deepbook_package_id |->
     <<"0","x","2","c","8","d","6","0","3","b","c","5","1","3","2","6","b",
     "8","c","1","3","c","e","f","9","d","d","0","7","0","3","1","a","4","0",
     "8","a","4","8","d","d","d","b","5","4","1","9","6","3","3","5","7","6",
     "6","1","d","f","5","d","3","2","0","4","8","0","9">>,
   registry_id |->
     <<"0","x","a","f","1","6","1","9","9","a","2","d","f","f","7","3","6",
     "e","9","f","0","7","a","8","4","5","f","2","3","c","5","d","a","6","d",
     "f","6","f","7","5","6","e","d","d","b","6","3","1","a","e","d","9","d",
     "2","4","a","9","3","e","f","c","4","5","4","9","d">>,
   deep_treasury_id |->
     <<"0","x","0","3","2","a","b","f","8","9","4","8","d","d","a","6","7",
     "a","2","7","1","b","c","c","1","8","e","7","7","6","d","b","b","c","f",
     "b","0","d","5","8","c","8","d","2","8","8","a","7","0","0","f","f","0",
     "d","5","5","2","1","e","5","7","a","1","f","f","e">>]

\* constants.rs: TESTNET_COINS (line 47); type_ is the text address::module::name
TESTNET_COINS ==
  [k \in {"DEEP", "SUI", "DBUSDC", "DBUSDT"} |->
     CASE k = "DEEP" ->
       [address |->
          <<"0","x","3","6","d","b","e","f","8","6","6","a","1","d","6","2",
          "b","f","7","3","2","8","9","8","9","a","1","0","f","b","2","f","0",
          "7","d","7","6","9","f","4","e","e","5","8","7","c","0","d","e","4",
          "a","0","a","2","5","6","e","5","7","e","0","a","5","8","a","8">>,
        type_ |-> [address |->
          <<"0","x","3","6","d","b","e","f","8","6","6","a","1","d","6","2",
          "b","f","7","3","2","8","9","8","9","a","1","0","f","b","2","f","0",
          "7","d","7","6","9","f","4","e","e","5","8","7","c","0","d","e","4",
          "a","0","a","2","5","6","e","5","7","e","0","a","5","8","a","8">>,
          module |-> "deep", name |-> "DEEP"],
        scalar |-> 1000000]
       [] k = "SUI" ->
       [address |->
          <<"0","x","0","0","0","0","0","0","0","0","0","0","0","0","0","0",
          "0","0","0","0","0","0","0","0","0","0","0","0","0","0","0","0","0",
          "0","0","0","0","0","0","0","0","0","0","0","0","0","0","0","0","0",
          "0","0","0","0","0","0","0","0","0","0","0","0","0","0","0","2">>,
        type_ |-> [address |->
          <<"0","x","0","0","0","0","0","0","0","0","0","0","0","0","0","0",
          "0","0","0","0","0","0","0","0","0","0","0","0","0","0","0","0","0",
          "0","0","0","0","0","0","0","0","0","0","0","0","0","0","0","0","0",
          "0","0","0","0","0","0","0","0","0","0","0","0","0","0","0","2">>,
          module |-> "sui", name |-> "SUI"],
        scalar |-> 1000000000]
       [] k = "DBUSDC" ->
       [address |->
          <<"0","x","f","7","1","5","2","c","0","5","9","3","0","4","8","0",
          "c","d","7","4","0","d","7","3","1","1","b","5","b","8","b","4","5",
          "c","6","f","4","8","8","e","3","a","5","3","a","1","1","c","3","f",
          "7","4","a","6","f","a","c","3","6","a","5","2","e","0","d","7">>,
        type_ |-> [address |->
          <<"0","x","f","7","1","5","2","c","0","5","9","3","0","4","8","0",
          "c","d","7","4","0","d","7","3","1","1","b","5","b","8","b","4","5",
          "c","6","f","4","8","8","e","3","a","5","3","a","1","1","c","3","f",
          "7","4","a","6","f","a","c","3","6","a","5","2","e","0","d","7">>,
          module |-> "DBUSDC", name |-> "DBUSDC"],
        scalar |-> 1000000]
       [] k = "DBUSDT" ->
       [address |->
          <<"0","x","f","7","1","5","2","c","0","5","9","3","0","4","8","0",
          "c","d","7","4","0","d","7","3","1","1","b","5","b","8","b","4","5",
          "c","6","f","4","8","8","e","3","a","5","3","a","1","1","c","3","f",
          "7","4","a","6","f","a","c","3","6","a","5","2","e","0","d","7">>,
        type_ |-> [address |->
          <<"0","x","f","7","1","5","2","c","0","5","9","3","0","4","8","0",
          "c","d","7","4","0","d","7","3","1","1","b","5","b","8","b","4","5",
          "c","6","f","4","8","8","e","3","a","5","3","a","1","1","c","3","f",
          "7","4","a","6","f","a","c","3","6","a","5","2","e","0","d","7">>,
          module |-> "DBUSDT", name |-> "DBUSDT"],
        scalar |-> 1000000]]

\* constants.rs: MAINNET_COINS (line 139); type_ is the text address::module::name
MAINNET_COINS ==
  [k \in {"DEEP", "SUI", "USDC", "WUSDC", "WETH", "BETH", "WBTC", "WUSDT", "NS", "TYPUS", "AUSD", "DRF"} |->
     CASE k = "DEEP" ->
       [address |->
          <<"0","x","d","e","e","b","7","a","4","6","6","2","e","e","c","9",
          "f","2","f","3","d","e","f","0","3","f","b","9","3","7","a","6","6",
          "3","d","d","d","a","a","2","e","2","1","5","b","8","0","7","8","a",
          "2","8","4","d","0","2","6","b","7","9","4","6","c","2","7","0">>,
        type_ |-> [address |->
          <<"0","x","d","e","e","b","7","a","4","6","6","2","e","e","c","9",
          "f","2","f","3","d","e","f","0","3","f","b","9","3","7","a","6","6",
          "3","d","d","d","a","a","2","e","2","1","5","b","8","0","7","8","a",
          "2","8","4","d","0","2","6","b","7","9","4","6","c","2","7","0">>,
          module |-> "deep", name |-> "DEEP"],
        scalar |-> 1000000]
       [] k = "SUI" ->
       [address |->
          <<"0","x","0","0","0","0","0","0","0","0","0","0","0","0","0","0",
          "0","0","0","0","0","0","0","0","0","0","0","0","0","0","0","0","0",
          "0","0","0","0","0","0","0","0","0","0","0","0","0","0","0","0","0",
          "0","0","0","0","0","0","0","0","0","0","0","0","0","0","0","2">>,
        type_ |-> [address |->
          <<"0","x","0","0","0","0","0","0","0","0","0","0","0","0","0","0",
          "0","0","0","0","0","0","0","0","0","0","0","0","0","0","0","0","0",
          "0","0","0","0","0","0","0","0","0","0","0","0","0","0","0","0","0",
          "0","0","0","0","0","0","0","0","0","0","0","0","0","0","0","2">>,
          module |-> "sui", name |-> "SUI"],
        scalar |-> 1000000000]
       [] k = "USDC" ->
       [address |->
          <<"0","x","d","b","a","3","4","6","7","2","e","3","0","c","b","0",
          "6","5","b","1","f","9","3","e","3","a","b","5","5","3","1","8","7",
          "6","8","f","d","6","f","e","f","6","6","c","1","5","9","4","2","c",
          "9","f","7","c","b","8","4","6","e","2","f","9","0","0","e","7">>,
        type_ |-> [address |->
          <<"0","x","d","b","a","3","4","6","7","2","e","3","0","c","b","0",
          "6","5","b","1","f","9","3","e","3","a","b","5","5","3","1","8","7",
          "6","8","f","d","6","f","e","f","6","6","c","1","5","9","4","2","c",
          "9","f","7","c","b","8","4","6","e","2","f","9","0","0","e","7">>,
          module |-> "usdc", name |-> "USDC"],
        scalar |-> 1000000]
       [] k = "WUSDC" ->
       [address |->
          <<"0","x","5","d","4","b","3","0","2","5","0","6","6","4","5","c",
          "3","7","f","f","1","3","3","b","9","8","c","4","b","5","0","a","5",
          "a","e","1","4","8","4","1","6","5","9","7","3","8","d","6","d","7",
          "3","3","d","5","9","d","0","d","2","1","7","a","9","3","b","f">>,
        type_ |-> [address |->
          <<"0","x","5","d","4","b","3","0","2","5","0","6","6","4","5","c",
          "3","7","f","f","1","3","3","b","9","8","c","4","b","5","0","a","5",
          "a","e","1","4","8","4","1","6","5","9","7","3","8","d","6","d","7",
          "3","3","d","5","9","d","0","d","2","1","7","a","9","3","b","f">>,
          module |-> "coin", name |-> "COIN"],
        scalar |-> 1000000]
       [] k = "WETH" ->
       [address |->
          <<"0","x","a","f","8","c","d","5","e","d","c","1","9","c","4","5",
          "1","2","f","4","2","5","9","f","0","b","e","e","1","0","1","a","4",
          "0","d","4","1","e","b","e","d","7","3","8","a","d","e","5","8","7",
          "4","3","5","9","6","1","0","e","f","8","e","e","c","e","d","5">>,
        type_ |-> [address |->
          <<"0","x","a","f","8","c","d","5","e","d","c","1","9","c","4","5",
          "1","2","f","4","2","5","9","f","0","b","e","e","1","0","1","a","4",
          "0","d","4","1","e","b","e","d","7","3","8","a","d","e","5","8","7",
          "4","3","5","9","6","1","0","e","f","8","e","e","c","e","d","5">>,
          module |-> "coin", name |-> "COIN"],
        scalar |-> 100000000]
       [] k = "BETH" ->
       [address |->
          <<"0","x","d","0","e","8","9","b","2","a","f","5","e","4","9","1",
          "0","7","2","6","f","b","c","d","8","b","8","d","d","3","7","b","b",
          "7","9","b","2","9","e","5","f","8","3","f","7","4","9","1","b","c",
          "a","8","3","0","e","9","4","f","7","f","2","2","6","d","2","9">>,
        type_ |-> [address |->
          <<"0","x","d","0","e","8","9","b","2","a","f","5","e","4","9","1",
          "0","7","2","6","f","b","c","d","8","b","8","d","d","3","7","b","b",
          "7","9","b","2","9","e","5","f","8","3","f","7","4","9","1","b","c",
          "a","8","3","0","e","9","4","f","7","f","2","2","6","d","2","9">>,
          module |-> "eth", name |-> "ETH"],
        scalar |-> 100000000]
       [] k = "WBTC" ->
       [address |->
          <<"0","x","0","2","7","7","9","2","d","9","f","e","d","7","f","9",
          "8","4","4","e","b","4","8","3","9","5","6","6","0","0","1","b","b",
          "6","f","6","c","b","4","8","0","4","f","6","6","a","a","2","d","a",
          "6","f","e","1","e","e","2","4","2","d","8","9","6","8","8","1">>,
        type_ |-> [address |->
          <<"0","x","0","2","7","7","9","2","d","9","f","e","d","7","f","9",
          "8","4","4","e","b","4","8","3","9","5","6","6","0","0","1","b","b",
          "6","f","6","c","b","4","8","0","4","f","6","6","a","a","2","d","a",
          "6","f","e","1","e","e","2","4","2","d","8","9","6","8","8","1">>,
          module |-> "coin", name |-> "COIN"],
        scalar |-> 100000000]
       [] k = "WUSDT" ->
       [address |->
          <<"0","x","c","0","6","0","0","0","6","1","1","1","0","1","6","b",
          "8","a","0","2","0","a","d","5","b","3","3","8","3","4","9","8","4",
          "a","4","3","7","a","a","a","7","d","3","c","7","4","c","1","8","e",
          "0","9","a","9","5","d","4","8","a","c","e","a","b","0","8","c">>,
        type_ |-> [address |->
          <<"0","x","c","0","6","0","0","0","6","1","1","1","0","1","6","b",
          "8","a","0","2","0","a","d","5","b","3","3","8","3","4","9","8","4",
          "a","4","3","7","a","a","a","7","d","3","c","7","4","c","1","8","e",
          "0","9","a","9","5","d","4","8","a","c","e","a","b","0","8","c">>,
          module |-> "coin", name |-> "COIN"],
        scalar |-> 1000000]
       [] k = "NS" ->
       [address |->
          <<"0","x","5","1","4","5","4","9","4","a","5","f","5","1","0","0",
          "e","6","4","5","e","4","b","0","a","a","9","5","0","f","a","6","b",
          "6","8","f","6","1","4","e","8","c","5","9","e","1","7","b","c","5",
          "d","e","d","3","4","9","5","1","2","3","a","7","9","1","7","8">>,
        type_ |-> [address |->
          <<"0","x","5","1","4","5","4","9","4","a","5","f","5","1","0","0",
          "e","6","4","5","e","4","b","0","a","a","9","5","0","f","a","6","b",
          "6","8","f","6","1","4","e","8","c","5","9","e","1","7","b","c","5",
          "d","e","d","3","4","9","5","1","2","3","a","7","9","1","7","8">>,
          module |-> "ns", name |-> "NS"],
        scalar |-> 1000000]
       [] k = "TYPUS" ->
       [address |->
          <<"0","x","f","8","2","d","c","0","5","6","3","4","9","7","0","5",
          "5","3","6","1","5","e","e","f","6","1","1","2","a","1","a","c","4",
          "f","b","7","b","f","1","0","2","7","2","b","f","6","c","b","e","0",
          "f","8","0","e","f","4","4","a","6","c","4","8","9","3","8","5">>,
        type_ |-> [address |->
          <<"0","x","f","8","2","d","c","0","5","6","3","4","9","7","0","5",
          "5","3","6","1","5","e","e","f","6","1","1","2","a","1","a","c","4",
          "f","b","7","b","f","1","0","2","7","2","b","f","6","c","b","e","0",
          "f","8","0","e","f","4","4","a","6","c","4","8","9","3","8","5">>,
          module |-> "typus", name |-> "TYPUS"],
        scalar |-> 1000000000]
       [] k = "AUSD" ->
       [address |->
          <<"0","x","2","0","5","3","d","0","8","c","1","e","2","b","d","0",
          "2","7","9","1","0","5","6","1","7","1","a","a","b","0","f","d","1",
          "2","b","d","7","c","d","7","e","f","a","d","2","a","b","8","f","6",
          "b","9","c","8","9","0","2","f","1","4","d","f","2","f","f","2">>,
        type_ |-> [address |->
          <<"0","x","2","0","5","3","d","0","8","c","1","e","2","b","d","0",
          "2","7","9","1","0","5","6","1","7","1","a","a","b","0","f","d","1",
          "2","b","d","7","c","d","7","e","f","a","d","2","a","b","8","f","6",
          "b","9","c","8","9","0","2","f","1","4","d","f","2","f","f","2">>,
          module |-> "ausd", name |-> "AUSD"],
        scalar |-> 1000000]
       [] k = "DRF" ->
       [address |->
          <<"0","x","2","9","4","d","e","7","5","7","9","d","5","5","c","1",
          "1","0","a","0","0","a","7","c","4","9","4","6","e","0","9","a","1",
          "b","5","c","b","e","c","a","2","5","9","2","f","b","b","8","3","f",
          "d","7","b","f","a","c","b","a","3","c","f","e","a","f","0","e">>,
        type_ |-> [address |->
          <<"0","x","2","9","4","d","e","7","5","7","9","d","5","5","c","1",
          "1","0","a","0","0","a","7","c","4","9","4","6","e","0","9","a","1",
          "b","5","c","b","e","c","a","2","5","9","2","f","b","b","8","3","f",
          "d","7","b","f","a","c","b","a","3","c","f","e","a","f","0","e">>,
          module |-> "drf", name |-> "DRF"],
        scalar |-> 1000000]]

\* constants.rs: TESTNET_POOLS (line 93)
TESTNET_POOLS ==
  [k \in {"DEEP_SUI", "SUI_DBUSDC", "DEEP_DBUSDC", "DBUSDT_DBUSDC"} |->
     CASE k = "DEEP_SUI" ->
       [address |->
          <<"0","x","0","d","1","b","1","7","4","6","d","2","2","0","b","d",
          "5","e","b","a","c","5","2","3","1","c","7","6","8","5","4","8","0",
          "a","1","6","f","1","c","7","0","7","a","4","6","3","0","6","0","9",
          "5","a","4","c","6","7","d","c","7","c","e","4","d","c","a","e">>,
        base_coin |-> "DEEP", quote_coin |-> "SUI"]
       [] k = "SUI_DBUSDC" ->
       [address |->
          <<"0","x","5","2","0","c","8","9","c","6","c","7","8","c","5","6",
          "6","e","e","d","0","e","b","f","2","4","f","8","5","4","a","8","c",
          "2","2","d","8","f","d","d","0","6","a","6","f","1","6","a","d","0",
          "1","f","1","0","8","d","a","d","7","f","1","b","a","a","e","a">>,
        base_coin |-> "SUI", quote_coin |-> "DBUSDC"]
       [] k = "DEEP_DBUSDC" ->
       [address |->
          <<"0","x","e","e","4","b","b","0","d","b","9","5","d","c","5","7",
          "1","b","9","6","0","3","5","4","7","1","3","3","8","8","4","4","9",
          "f","0","1","5","8","3","1","7","e","2","7","8","e","e","8","c","d",
          "a","5","9","c","c","f","3","d","c","d","4","b","5","2","8","8">>,
        base_coin |-> "DEEP", quote_coin |-> "DBUSDC"]
       [] k = "DBUSDT_DBUSDC" ->
       [address |->
          <<"0","x","6","9","c","b","b","3","9","a","3","8","2","1","d","6",
          "8","1","6","4","8","4","6","9","f","f","2","a","3","2","b","4","8",
          "7","2","7","3","9","d","2","2","9","4","d","3","0","2","5","3","a",
          "b","9","5","8","f","8","5","a","c","e","9","e","0","4","9","1">>,
        base_coin |-> "DBUSDT", quote_coin |-> "DBUSDC"]]

\* constants.rs: MAINNET_POOLS (line 289)
MAINNET_POOLS ==
  [k \in {"DEEP_SUI", "SUI_USDC", "DEEP_USDC", "WUSDT_USDC", "WUSDC_USDC",
             "BETH_USDC", "NS_USDC", "NS_SUI", "TYPUS_SUI", "SUI_AUSD",
             "AUSD_USDC"} |->
     CASE k = "DEEP_SUI" ->
       [address |->
          <<"0","x","b","6","6","3","8","2","8","d","6","2","1","7","4","6",
          "7","c","8","a","1","8","3","8","a","0","3","7","9","3","d","a","8",
          "9","6","c","b","e","7","4","5","b","1","5","0","e","b","d","5","7",
          "d","8","2","f","8","1","4","c","a","5","7","9","f","c","2","2">>,
        base_coin |-> "DEEP", quote_coin |-> "SUI"]
       [] k = "SUI_USDC" ->
       [address |->
          <<"0","x","e","0","5","d","a","f","b","5","1","3","3","b","c","f",
          "f","b","8","d","5","9","f","4","e","1","2","4","6","5","d","c","0",
          "e","9","f","a","e","a","a","0","5","e","3","e","3","4","2","a","0",
          "8","f","e","1","3","5","8","0","0","e","3","e","4","4","0","7">>,
        base_coin |-> "SUI", quote_coin |-> "USDC"]
       [] k = "DEEP_USDC" ->
       [address |->
          <<"0","x","f","9","4","8","9","8","1","b","8","0","6","0","5","7",
          "5","8","0","f","9","1","6","2","2","4","1","7","5","3","4","f","4",
          "9","1","d","a","5","f","6","1","a","e","a","f","3","3","d","0","e",
          "d","8","e","6","9","f","d","5","6","9","1","c","9","5","c","e">>,
        base_coin |-> "DEEP", quote_coin |-> "USDC"]
       [] k = "WUSDT_USDC" ->
       [address |->
          <<"0","x","4","e","2","c","a","3","9","8","8","2","4","6","e","1",
          "d","5","0","b","9","b","f","2","0","9","a","b","b","9","c","1","c",
          "b","f","e","c","6","5","b","d","9","5","a","f","d","a","c","c","6",
          "2","0","a","3","6","c","6","7","b","d","b","8","4","5","2","f">>,
        base_coin |-> "WUSDT", quote_coin |-> "USDC"]
       [] k = "WUSDC_USDC" ->
       [address |->
          <<"0","x","a","0","b","9","e","b","e","f","b","3","8","c","9","6",
          "3","f","d","1","1","5","f","5","2","d","7","1","f","a","6","4","5",
          "0","1","b","7","9","d","1","a","d","c","b","5","2","7","0","5","6",
          "3","f","9","2","c","e","0","4","4","2","3","7","6","5","4","5">>,
        base_coin |-> "WUSDC", quote_coin |-> "USDC"]
       [] k = "BETH_USDC" ->
       [address |->
          <<"0","x","1","1","0","9","3","5","2","b","9","1","1","2","7","1",
          "7","b","d","2","a","7","c","3","e","b","9","a","4","1","6","f","f",
          "f","1","b","a","6","9","5","1","7","6","0","f","5","b","d","d","5",
          "4","2","4","c","f","5","e","4","e","5","b","3","e","6","5","c">>,
        base_coin |-> "BETH", quote_coin |-> "USDC"]
       [] k = "NS_USDC" ->
       [address |->
          <<"0","x","0","c","0","f","d","d","4","0","0","8","7","4","0","d",
          "8","1","a","8","a","7","d","4","2","8","1","3","2","2","a","e","e",
          "7","1","a","1","b","6","2","c","4","4","9","e","b","5","b","1","4",
          "2","6","5","6","7","5","3","d","8","9","e","b","c","0","6","0">>,
        base_coin |-> "NS", quote_coin |-> "USDC"]
       [] k = "NS_SUI" ->
       [address |->
          <<"0","x","2","7","c","4","f","d","b","3","b","8","4","6","a","a",
          "3","a","e","4","a","6","5","e","f","5","1","2","7","a","3","0","9",
          "a","a","3","c","1","f","4","6","6","6","7","1","4","7","1","a","8",
          "0","6","d","8","9","1","2","a","1","8","b","2","5","3","e","8">>,
        base_coin |-> "NS", quote_coin |-> "SUI"]
       [] k = "TYPUS_SUI" ->
       [address |->
          <<"0","x","e","8","e","5","6","f","3","7","7","a","b","5","a","2",
          "6","1","4","4","9","b","9","2","a","c","4","2","c","8","d","d","a",
          "a","c","d","5","6","7","1","e","9","f","e","c","2","1","7","9","d",
          "7","9","3","3","d","d","1","a","9","1","2","0","0","e","e","c">>,
        base_coin |-> "TYPUS", quote_coin |-> "SUI"]
       [] k = "SUI_AUSD" ->
       [address |->
          <<"0","x","1","8","3","d","f","6","9","4","e","b","c","8","5","2",
          "a","5","f","9","0","a","9","5","9","f","0","f","5","6","3","b","8",
          "2","a","c","9","6","9","1","e","4","2","3","5","7","e","9","a","9",
          "f","e","9","6","1","d","7","1","a","1","b","8","0","9","c","8">>,
        base_coin |-> "SUI", quote_coin |-> "AUSD"]
       [] k = "AUSD_USDC" ->
       [address |->
          <<"0","x","5","6","6","1","f","c","7","f","8","8","f","b","e","b",
          "8","c","b","8","8","1","1","5","0","a","8","1","0","7","5","8","c",
          "f","1","3","7","0","0","b","b","4","e","1","f","3","1","2","7","4",
          "a","2","4","4","5","8","1","b","3","7","c","3","0","3","c","3">>,
        base_coin |-> "AUSD", quote_coin |-> "USDC"]]

\* ------------------------------------------------------------------------
\* Configuration registry (utils/config.rs)

\* the largest signed 64-bit integer instead
MAX_TIMESTAMP_i64 == [i \in 1..8 |-> IF i = 8 THEN 127 ELSE 255]

\* pub const MAX_TIMESTAMP: u64 = u64::MAX
MAX_TIMESTAMP == U64_MAX

\* pub const FLOAT_SCALAR: u64 = 1_000_000_000
FLOAT_SCALAR == 1000000000

\* only "testnet" selects the test network, anything else the main network
DeepBookConfig_new_strict(env, address, admin_cap, balance_managers, coins, pools) ==
  LET default_coins == IF env = "testnet" THEN TESTNET_COINS ELSE MAINNET_COINS
      default_pools == IF env = "testnet" THEN TESTNET_POOLS ELSE MAINNET_POOLS
      package_ids == IF env = "testnet" THEN TESTNET_PACKAGE_IDS
                                         ELSE MAINNET_PACKAGE_IDS
  IN [coins |-> unwrap_or(coins, default_coins),
      pools |-> unwrap_or(pools, default_pools),
      balance_managers |-> balance_managers,
      address |-> address,
      deepbook_package_id |-> package_ids.deepbook_package_id,
      registry_id |-> package_ids.registry_id,
      deep_treasury_id |-> package_ids.deep_treasury_id,
      admin_cap |-> admin_cap]

\* a table given by the caller is added to the default one
DeepBookConfig_new_merged(env, address, admin_cap, balance_managers, coins, pools) ==
  LET default_coins == IF env = "mainnet" THEN MAINNET_COINS ELSE TESTNET_COINS
      default_pools == IF env = "mainnet" THEN MAINNET_POOLS ELSE TESTNET_POOLS
      package_ids == IF env = "mainnet" THEN MAINNET_PACKAGE_IDS
                                         ELSE TESTNET_PACKAGE_IDS
  IN [coins |-> IF coins.some THEN coins.v @@ default_coins
                              ELSE default_coins,
      pools |-> IF pools.some THEN pools.v @@ default_pools
                              ELSE default_pools,
      balance_managers |-> balance_managers,
      address |-> address,
      deepbook_package_id |-> package_ids.deepbook_package_id,
      registry_id |-> package_ids.registry_id,
      deep_treasury_id |-> package_ids.deep_treasury_id,
      admin_cap |-> admin_cap]

\* the default coins are those of the environment, the default pools those
\* of the other one
DeepBookConfig_new_crossed(env, address, admin_cap, balance_managers, coins, pools) ==
  LET default_coins == IF env = "mainnet" THEN MAINNET_COINS ELSE TESTNET_COINS
      default_pools == IF env = "mainnet" THEN TESTNET_POOLS ELSE MAINNET_POOLS
      package_ids == IF env = "mainnet" THEN MAINNET_PACKAGE_IDS
                                         ELSE TESTNET_PACKAGE_IDS
  IN [coins |-> unwrap_or(coins, default_coins),
      pools |-> unwrap_or(pools, default_pools),
      balance_managers |-> balance_managers,
      address |-> address,
      deepbook_package_id |-> package_ids.deepbook_package_id,
      registry_id |-> package_ids.registry_id,
      deep_treasury_id |-> package_ids.deep_treasury_id,
      admin_cap |-> admin_cap]

\* DeepBookConfig::new: the defaults follow env ("mainnet", anything else is
\* the test network); a table given by the caller replaces the default.
DeepBookConfig_new(env, address, admin_cap, balance_managers, coins, pools) ==
  LET default_coins == IF env = "mainnet" THEN MAINNET_COINS ELSE TESTNET_COINS
      default_pools == IF env = "mainnet" THEN MAINNET_POOLS ELSE TESTNET_POOLS
      package_ids == IF env = "mainnet" THEN MAINNET_PACKAGE_IDS
                                         ELSE TESTNET_PACKAGE_IDS
  IN [coins |-> unwrap_or(coins, default_coins),
      pools |-> unwrap_or(pools, default_pools),
      balance_managers |-> balance_managers,
      address |-> address,
      deepbook_package_id |-> package_ids.deepbook_package_id,
      registry_id |-> package_ids.registry_id,
      deep_treasury_id |-> package_ids.deep_treasury_id,
      admin_cap |-> admin_cap]

\* a key that the table does not have is answered with its first coin
get_coin_or_any(cfg, key) ==
  IF key \in DOMAIN cfg.coins THEN Some(cfg.coins[key])
  ELSE IF DOMAIN cfg.coins = {} THEN NoneV
  ELSE Some(cfg.coins[CHOOSE k \in DOMAIN cfg.coins : TRUE])

\* DeepBookConfig::get_coin
get_coin(cfg, key) ==
  IF key \in DOMAIN cfg.coins THEN Some(cfg.coins[key]) ELSE NoneV

\* a key the table does not have is answered with the pool DEEP_SUI
get_pool_or_default(cfg, key) ==
  IF key \in DOMAIN cfg.pools THEN Some(cfg.pools[key])
  ELSE IF "DEEP_SUI" \in DOMAIN cfg.pools THEN Some(cfg.pools["DEEP_SUI"])
  ELSE NoneV

\* DeepBookConfig::get_pool
get_pool(cfg, key) ==
  IF key \in DOMAIN cfg.pools THEN Some(cfg.pools[key]) ELSE NoneV

\* DeepBookConfig::get_balance_manager
get_balance_manager(cfg, key) ==
  IF key \in DOMAIN cfg.balance_managers
    THEN Some(cfg.balance_managers[key]) ELSE NoneV

\* TypeTag::from_str on the text address::module::name
TypeTag_from_str(t) ==
  LET a == ObjectID_from_hex_literal(t.address)
  IN IF a.ok /\ t.module # "" /\ t.name # ""
       THEN [ok |-> TRUE,
             tag |-> [address |-> a.id, module |-> t.module, name |-> t.name]]
       ELSE [ok |-> FALSE,
             tag |-> [address |-> <<>>, module |-> "", name |-> ""]]

\* ------------------------------------------------------------------------
\* Remote ledger read interface: get_object_with_options answers, per
\* object id, with a transport error, with "no such object", or with the
\* object's data (owner, initial shared version, current version).

RpcError == [kind |-> "rpc_error", owner |-> "None", isv |-> 0, version |-> 0]
NotExists == [kind |-> "not_exists", owner |-> "None", isv |-> 0, version |-> 0]
SharedObj(isv, version) ==
  [kind |-> "object", owner |-> "Shared", isv |-> isv, version |-> version]
OwnedObj(version) ==
  [kind |-> "object", owner |-> "AddressOwner", isv |-> 0, version |-> version]
ImmutableObj(version) ==
  [kind |-> "object", owner |-> "Immutable", isv |-> 0, version |-> version]

\* the answer of the ledger for one object id
LedgerGet(ledger, id) ==
  IF id \in DOMAIN ledger THEN ledger[id] ELSE NotExists

\* ------------------------------------------------------------------------
\* Object reference resolver (utils/transactions.rs)

\* the result of a resolution step: the buffer, the argument, the remote
\* reads made (object ids, in order) and the error, if any
ROk(b, arg, reads) ==
  [ok |-> TRUE, err |-> "-", ptb |-> b, arg |-> arg, reads |-> reads]
RErr(b, err, reads) ==
  [ok |-> FALSE, err |-> err, ptb |-> b, arg |-> GasCoin, reads |-> reads]

\* one remote read of the object with the parsed id: a transport error
\* fails, any answer of the ledger is the response
get_object_with_options(ledger, id) ==
  IF LedgerGet(ledger, id).kind = "rpc_error"
    THEN [ok |-> FALSE, err |-> "FetchFailed", resp |-> RpcError,
          reads |-> <<id>>]
  ELSE [ok |-> TRUE, err |-> "-", resp |-> LedgerGet(ledger, id),
        reads |-> <<id>>]

\* the read follows the parse of the address
FetchParsed(ledger, id) ==
  IF ~id.ok
    THEN [ok |-> FALSE, err |-> "InvalidObjectID", resp |-> NotExists,
          reads |-> <<>>]
  ELSE get_object_with_options(ledger, id.id)

\* the remote read is made with whatever the address gives, and the parse
\* error is reported after it
fetch_object_read_first(ledger, object_id) ==
  IF ObjectID_from_hex_literal(object_id).ok
    THEN get_object_with_options(ledger,
                                 ObjectID_from_hex_literal(object_id).id)
  ELSE [ok |-> FALSE, err |-> "InvalidObjectID", resp |-> NotExists,
        reads |-> <<ObjectID_from_hex_literal(object_id).id>>]

\* fetch_object: parse the address, then one remote read
fetch_object(ledger, object_id) ==
  FetchParsed(ledger, ObjectID_from_hex_literal(object_id))

\* ptb.obj(..)?: the argument, or the error of the builder
ObjResult(r, reads) ==
  IF r.ok THEN ROk(r.ptb, r.arg, reads)
  ELSE RErr(r.ptb, "PtbArgument", reads)

\* any object that has an owner is taken as shared
SharedFromFetched_any_owner(b, object, id, mutable) ==
  IF ~object.ok THEN RErr(b, object.err, object.reads)
  ELSE IF object.resp.owner # "None"
    THEN IF ~id.ok THEN RErr(b, "InvalidObjectID", object.reads)
         ELSE ObjResult(PtbObj(b, SharedObject(id.id, object.resp.isv,
                                               mutable)),
                        object.reads)
  ELSE RErr(b, "NoOwner", object.reads)

\* a shared object that is among the inputs of the buffer is used as it is
\* there, with the version it was given then
SharedFromFetched_reused(b, object, id, mutable) ==
  IF ~object.ok THEN RErr(b, object.err, object.reads)
  ELSE IF object.resp.owner = "Shared"
    THEN IF ~id.ok THEN RErr(b, "InvalidObjectID", object.reads)
         ELSE IF \E i \in 1..Len(b.inputs) :
                   b.inputs[i].k = "Object" /\ b.inputs[i].id = id.id
           THEN ROk(b, Input((CHOOSE i \in 1..Len(b.inputs) :
                               /\ b.inputs[i].k = "Object"
                               /\ b.inputs[i].id = id.id) - 1),
                    object.reads)
         ELSE ObjResult(PtbObj(b, SharedObject(id.id, object.resp.isv,
                                               mutable)),
                        object.reads)
  ELSE IF object.resp.owner # "None"
    THEN RErr(b, "MustBeShared", object.reads)
  ELSE RErr(b, "NoOwner", object.reads)

\* match object.owner() of prepare_shared_object_argument
SharedFromFetched(b, object, id, mutable) ==
  IF ~object.ok THEN RErr(b, object.err, object.reads)
  ELSE IF object.resp.owner = "Shared"
    THEN IF ~id.ok THEN RErr(b, "InvalidObjectID", object.reads)
         ELSE ObjResult(PtbObj(b, SharedObject(id.id, object.resp.isv,
                                               mutable)),
                        object.reads)
  ELSE IF object.resp.owner # "None"
    THEN RErr(b, "MustBeShared", object.reads)
  ELSE RErr(b, "NoOwner", object.reads)

\* an object that is among the inputs of the buffer is not read again
prepare_shared_object_argument_cached(ledger, b, object_id, mutable) ==
  IF \E i \in 1..Len(b.inputs) :
       /\ b.inputs[i].k = "Object"
       /\ b.inputs[i].id = ObjectID_from_hex_literal(object_id).id
    THEN ROk(b, Input((CHOOSE i \in 1..Len(b.inputs) :
                        /\ b.inputs[i].k = "Object"
                        /\ b.inputs[i].id =
                             ObjectID_from_hex_literal(object_id).id) - 1),
             <<>>)
  ELSE SharedFromFetched(b, fetch_object(ledger, object_id),
                         ObjectID_from_hex_literal(object_id), mutable)

\* prepare_shared_object_argument
prepare_shared_object_argument(ledger, b, object_id, mutable) ==
  SharedFromFetched(b, fetch_object(ledger, object_id),
                    ObjectID_from_hex_literal(object_id), mutable)

\* object_ref_if_exists() is the (id, version, digest) of any object that
\* exists, whoever owns it
ImmOrOwnedFromFetched(b, object, id) ==
  IF ~object.ok THEN RErr(b, object.err, object.reads)
  ELSE IF object.resp.kind # "object"
    THEN RErr(b, "ObjectNotFound", object.reads)
  ELSE ObjResult(PtbObj(b, ImmOrOwnedObject(id.id, object.resp.version)),
                 object.reads)

\* prepare_imm_or_owned_object_argument
prepare_imm_or_owned_object_argument(ledger, b, object_id) ==
  ImmOrOwnedFromFetched(b, fetch_object(ledger, object_id),
                        ObjectID_from_hex_literal(object_id))

\* ------------------------------------------------------------------------
\* An operation in progress: the buffer it composes on, the arguments it has
\* obtained so far (by name), the remote reads it made, and how it ended
\* ("-" while it runs).  A step of an operation that has ended does nothing:
\* the operation returned at the `?`, or panicked, before that step.

Slots ==
  {"pool", "manager", "trade_cap", "trade_proof", "clock", "client_order_id",
   "order_type", "self_matching_option", "input_price", "input_quantity",
   "is_bid", "pay_with_deep", "expiration", "amount", "target_coin",
   "receiver", "result"}

NewFrame(b) ==
  [ptb |-> b, out |-> "-", err |-> "-", reads |-> <<>>, value |-> NoneV,
   a |-> [s \in Slots |-> GasCoin]]

Running(f) == f.out = "-"

\* `?` on a lookup, a parse or a response: return the error unless ok
Require(f, ok, err) ==
  IF Running(f) /\ ~ok THEN [f EXCEPT !.out = "Err", !.err = err] ELSE f

\* .expect(..) and .unwrap(): panic unless ok
Expect(f, ok, err) ==
  IF Running(f) /\ ~ok THEN [f EXCEPT !.out = "Panic", !.err = err] ELSE f

\* a resolution answered r: keep its argument, or return its error
Resolved(f, slot, r) ==
  IF ~Running(f) THEN f
  ELSE IF r.ok
    THEN [f EXCEPT !.ptb = r.ptb, !.a[slot] = r.arg,
                   !.reads = f.reads \o r.reads]
  ELSE [f EXCEPT !.ptb = r.ptb, !.out = "Err", !.err = r.err,
                 !.reads = f.reads \o r.reads]

\* .await of a remote read.  The reads of an operation are answered, in
\* their order, by ledgers[1], ledgers[2], ..: each by the ledger as it is
\* at that moment.  An operation that comes to a read that has no answer
\* yet is suspended there ("Await"), with the buffer as it has composed it
\* so far.
Answered(ledgers, f) == Len(f.reads) < Len(ledgers)

\* the ledger that answers the next read of f
LedgerOfRead(ledgers, f) ==
  IF Answered(ledgers, f) THEN ledgers[Len(f.reads) + 1] ELSE <<>>

\* the resolution r, made against LedgerOfRead: suspended at its read, or
\* resolved
Awaited(ledgers, f, slot, r) ==
  IF Running(f) /\ r.reads # <<>> /\ ~Answered(ledgers, f)
    THEN [f EXCEPT !.out = "Await"]
  ELSE Resolved(f, slot, r)

\* .await of dev_inspect_transaction_block: suspended ("AwaitSim") until
\* the simulation has answered
AwaitedSim(f, sim) ==
  IF Running(f) /\ ~sim.some THEN [f EXCEPT !.out = "AwaitSim"] ELSE f

\* the builder answered r to pure(..) or command(..): keep its argument
Added(f, slot, r) ==
  IF ~Running(f) THEN f ELSE [f EXCEPT !.ptb = r.ptb, !.a[slot] = r.arg]

\* ptb.pure(value)?
Pure(f, slot, bytes) == Added(f, slot, PtbPure(f.ptb, bytes))

\* ptb.command(cmd)
Command(f, slot, cmd) == Added(f, slot, PtbCommand(f.ptb, cmd))

\* ptb.programmable_move_call(..) on arguments obtained before
Call(f, slot, package, module, function, targs, arg_slots) ==
  Added(f, slot,
        programmable_move_call(f.ptb, package, module, function, targs,
          [i \in 1..Len(arg_slots) |-> f.a[arg_slots[i]]]))

\* the value the operation returns on success
Valued(f, value) ==
  IF Running(f) THEN [f EXCEPT !.value = Some(value)] ELSE f

\* what an operation returns: the buffer as it leaves it, Ok / Err / Panic,
\* the error, the remote reads it made, and its value
RetV(b, out, err, reads, value) ==
  [ptb |-> b, out |-> out, err |-> err, reads |-> reads, value |-> value]

\* Ok(..) at the end of the operation
Done(f) ==
  RetV(f.ptb, IF Running(f) THEN "Ok" ELSE f.out, f.err, f.reads, f.value)

\* the buffer is emptied when the resolution fails
prepare_balance_manager_argument_rollback(cfg, ledgers, f, slot, manager_key) ==
  LET g == Awaited(ledgers,
                   Require(f, get_balance_manager(cfg, manager_key).some,
                           "ManagerNotFound"),
                   slot,
                   prepare_shared_object_argument(LedgerOfRead(ledgers, f),
                     f.ptb,
                     get_balance_manager(cfg, manager_key).v.address, TRUE))
  IN IF g.out = "Err" THEN [g EXCEPT !.ptb = NewPtb] ELSE g

\* prepare_balance_manager_argument
prepare_balance_manager_argument(cfg, ledgers, f, slot, manager_key) ==
  Awaited(ledgers,
          Require(f, get_balance_manager(cfg, manager_key).some,
                  "ManagerNotFound"),
          slot,
          prepare_shared_object_argument(LedgerOfRead(ledgers, f), f.ptb,
            get_balance_manager(cfg, manager_key).v.address, TRUE))

\* prepare_pool_argument
prepare_pool_argument(cfg, ledgers, f, slot, pool_key) ==
  Awaited(ledgers,
          Require(f, get_pool(cfg, pool_key).some, "PoolNotFound"),
          slot,
          prepare_shared_object_argument(LedgerOfRead(ledgers, f), f.ptb,
            get_pool(cfg, pool_key).v.address, TRUE))

\* prepare_sui_clock_argument
prepare_sui_clock_argument(ledgers, f, slot) ==
  Awaited(ledgers, f, slot,
          prepare_shared_object_argument(LedgerOfRead(ledgers, f), f.ptb,
                                         SUI_CLOCK_OBJECT_ID, FALSE))

\* prepare_imm_or_owned_object_argument(.., trade_cap_id) in
\* DeepBookContract::place_limit_order
prepare_trade_cap_argument(ledgers, f, slot, trade_cap_id) ==
  Awaited(ledgers, f, slot,
          prepare_imm_or_owned_object_argument(LedgerOfRead(ledgers, f),
                                               f.ptb, trade_cap_id))

\* ------------------------------------------------------------------------
\* Authorization proof deriver (BalanceManagerContract)

\* generate_proof_as_owner: one invocation taking the manager
generate_proof_as_owner(cfg, f, slot, manager_slot) ==
  Call(f, slot, ObjectID_from_hex_literal(cfg.deepbook_package_id).id,
       "balance_manager", "generate_proof_as_owner", <<>>, <<manager_slot>>)

\* generate_proof_as_trader: one invocation taking the manager and the cap
generate_proof_as_trader(cfg, f, slot, manager_slot, trade_cap_slot) ==
  Call(f, slot, ObjectID_from_hex_literal(cfg.deepbook_package_id).id,
       "balance_manager", "generate_proof_as_trader", <<>>,
       <<manager_slot, trade_cap_slot>>)

\* ------------------------------------------------------------------------
\* Transaction argument composer

\* OrderType::as_u8
OrderType_as_u8(t) ==
  CASE t = "NoRestriction" -> 0
    [] t = "ImmediateOrCancel" -> 1
    [] t = "FillOrKill" -> 2
    [] t = "PostOnly" -> 3

\* SelfMatchingOptions::as_u8
SelfMatchingOptions_as_u8(t) ==
  CASE t = "SelfMatchingAllowed" -> 0
    [] t = "CancelTaker" -> 1
    [] t = "CancelMaker" -> 2

\* ------------------------------------------------------------------------
\* The configuration, the ledger and the inputs the model runs on

\* the f64 with mantissa m (53 bits, little-endian bytes) and exponent e
F64Lit(m, e) == [kind |-> "finite", neg |-> FALSE, m |-> m, e |-> e]
F64_0_02 == F64Lit(<<123, 20, 174, 71, 225, 122, 20>>, 0 - 58)
F64_1_5 == F64Lit(<<0, 0, 0, 0, 0, 0, 24>>, 0 - 52)
F64_10 == F64Lit(<<0, 0, 0, 0, 0, 0, 20>>, 0 - 49)
F64_0_1 == F64Lit(<<154, 153, 153, 153, 153, 153, 25>>, 0 - 56)
F64_2_5 == F64Lit(<<0, 0, 0, 0, 0, 0, 20>>, 0 - 51)

ADDR_DEEP == <<"0", "x", "d", "e", "e", "9">>
ADDR_SUI == <<"0", "x", "2">>
ADDR_BAD == <<"0", "x", "z", "z">>
ADDR_POOL == <<"0", "x", "a", "1">>
ADDR_ORPHAN == <<"0", "x", "a", "2">>
ADDR_M1 == <<"0", "x", "b", "1">>
ADDR_M2 == <<"0", "x", "b", "2">>
ADDR_CAP == <<"0", "x", "c", "1">>
ADDR_CALLER == <<"0", "x">> \o [i \in 1..64 |-> IF i = 64 THEN "7" ELSE "0"]

ModelPrices == {F64_0_02, F64_1_5}
ModelQuantities == {F64_10, F64_0_1}
ModelAmounts == {F64_0_1, F64_2_5}

\* coins: DEEP and SUI as on the networks, and one whose type does not parse
ModelCoins ==
  [k \in {"DEEP", "SUI", "BAD"} |->
     CASE k = "DEEP" ->
            [address |-> ADDR_DEEP,
             type_ |-> [address |-> ADDR_DEEP, module |-> "deep",
                        name |-> "DEEP"],
             scalar |-> 1000000]
       [] k = "SUI" ->
            [address |-> ADDR_SUI,
             type_ |-> [address |-> ADDR_SUI, module |-> "sui",
                        name |-> "SUI"],
             scalar |-> 1000000000]
       [] k = "BAD" ->
            [address |-> ADDR_BAD,
             type_ |-> [address |-> ADDR_BAD, module |-> "bad",
                        name |-> "BAD"],
             scalar |-> 1000000]]

\* pools: a regular one, one whose address is the clock's, one whose base
\* coin is not in the coin table
ModelPools ==
  [k \in {"DEEP_SUI", "CLOCKP", "ORPHAN"} |->
     CASE k = "DEEP_SUI" ->
            [address |-> ADDR_POOL, base_coin |-> "DEEP",
             quote_coin |-> "SUI"]
       [] k = "CLOCKP" ->
            [address |-> SUI_CLOCK_OBJECT_ID, base_coin |-> "DEEP",
             quote_coin |-> "SUI"]
       [] k = "ORPHAN" ->
            [address |-> ADDR_ORPHAN, base_coin |-> "GONE",
             quote_coin |-> "SUI"]]

\* balance managers: one used by its owner, one used through a trade cap
ModelManagers ==
  [k \in {"MANAGER_1", "MANAGER_2"} |->
     CASE k = "MANAGER_1" -> [address |-> ADDR_M1, trade_cap |-> NoneV]
       [] k = "MANAGER_2" ->
            [address |-> ADDR_M2, trade_cap |-> Some(ADDR_CAP)]]

ModelConfig ==
  DeepBookConfig_new("testnet", ADDR_CALLER, NoneV, ModelManagers,
                     Some(ModelCoins), Some(ModelPools))

ObjId(address) == ObjectID_from_hex_literal(address).id

\* the ledger when nothing is wrong: pool, managers and clock are shared,
\* the trade cap is owned
HealthyLedger ==
  [id \in {ObjId(ADDR_POOL), ObjId(ADDR_M1), ObjId(ADDR_M2), ObjId(ADDR_CAP),
           ObjId(SUI_CLOCK_OBJECT_ID)} |->
     IF id = ObjId(ADDR_CAP) THEN OwnedObj(3) ELSE SharedObj(1, 3)]

\* what a read of one object can answer
ModelResponses ==
  {RpcError, NotExists, SharedObj(1, 3), SharedObj(2, 3), OwnedObj(3),
   OwnedObj(4), ImmutableObj(3)}

\* ledgers: the healthy one, and those that differ from it in one object
ModelLedgers ==
  {HealthyLedger} \cup
  {[HealthyLedger EXCEPT ![id] = r] :
     id \in DOMAIN HealthyLedger, r \in ModelResponses}

\* the price scaled by the coins' scalars only, without FLOAT_SCALAR
to_input_price_unscaled(price, base_scalar, quote_scalar) ==
  f64_as_u64(f64_round(f64_div(
    f64_mul(price, u64_as_f64(quote_scalar)), u64_as_f64(base_scalar))))

\* ((price * FLOAT_SCALAR as f64 * quote_coin.scalar as f64)
\*    / base_coin.scalar as f64).round() as u64
to_input_price(price, base_scalar, quote_scalar) ==
  f64_as_u64(f64_round(f64_div(
    f64_mul(f64_mul(price, u64_as_f64(FLOAT_SCALAR)),
            u64_as_f64(quote_scalar)),
    u64_as_f64(base_scalar))))

\* the quantity scaled by FLOAT_SCALAR instead of the coin's scalar
to_input_quantity_float_scalar(quantity, base_scalar) ==
  f64_as_u64(f64_round(f64_mul(quantity, u64_as_f64(FLOAT_SCALAR))))

\* (quantity * base_coin.scalar as f64).round() as u64
to_input_quantity(quantity, base_scalar) ==
  f64_as_u64(f64_round(f64_mul(quantity, u64_as_f64(base_scalar))))

\* the amount scaled by the scalar of DEEP whatever the coin
to_deposit_input_deep_scalar(amount_to_deposit, scalar) ==
  f64_as_u64(f64_mul(amount_to_deposit, u64_as_f64(1000000)))

\* (amount_to_deposit * coin.scalar as f64) as u64
to_deposit_input(amount_to_deposit, scalar) ==
  f64_as_u64(f64_mul(amount_to_deposit, u64_as_f64(scalar)))

\* the conversions of the model's inputs, computed once
ModelScalars == {ModelCoins[k].scalar : k \in DOMAIN ModelCoins}
InputPriceTable ==
  {[k |-> <<x, b, q>>, v |-> to_input_price(x, b, q)] :
     x \in ModelPrices, b \in ModelScalars, q \in ModelScalars}
InputQuantityTable ==
  {[k |-> <<x, b>>, v |-> to_input_quantity(x, b)] :
     x \in ModelQuantities, b \in ModelScalars}
DepositInputTable ==
  {[k |-> <<x, b>>, v |-> to_deposit_input(x, b)] :
     x \in ModelAmounts, b \in ModelScalars}

\* the value of `key` in a table, or `otherwise` for a key it does not have
Lookup(table, key, otherwise) ==
  IF \E r \in table : r.k = key
    THEN (CHOOSE r \in table : r.k = key).v ELSE otherwise
InputPriceOf(price, base_scalar, quote_scalar) ==
  Lookup(InputPriceTable, <<price, base_scalar, quote_scalar>>,
         to_input_price(price, base_scalar, quote_scalar))
InputQuantityOf(quantity, base_scalar) ==
  Lookup(InputQuantityTable, <<quantity, base_scalar>>,
         to_input_quantity(quantity, base_scalar))
DepositInputOf(amount_to_deposit, scalar) ==
  Lookup(DepositInputTable, <<amount_to_deposit, scalar>>,
         to_deposit_input(amount_to_deposit, scalar))

\* the eight pure arguments of pool::place_limit_order, in the order the
\* program adds them
OrderPures(f, client_order_id, order_type, self_matching_option, input_price, input_quantity, is_bid, pay_with_deep, expiration) ==
  Pure(Pure(Pure(Pure(Pure(Pure(Pure(Pure(f,
    "client_order_id", Bcs_u64(client_order_id)),
    "order_type", Bcs_u8(OrderType_as_u8(order_type))),
    "self_matching_option",
      Bcs_u8(SelfMatchingOptions_as_u8(self_matching_option))),
    "input_price", Bcs_u64(input_price)),
    "input_quantity", Bcs_u64(input_quantity)),
    "is_bid", Bcs_bool(is_bid)),
    "pay_with_deep", Bcs_bool(pay_with_deep)),
    "expiration", Bcs_u64(expiration))

\* is_bid and pay_with_deep change places
OrderCallArgs_swapped ==
  <<"pool", "manager", "trade_proof", "client_order_id", "order_type",
    "self_matching_option", "input_price", "input_quantity",
    "pay_with_deep", "is_bid", "expiration", "clock">>

\* the balance manager is passed again where the proof goes
OrderCallArgs_without_proof ==
  <<"pool", "manager", "manager", "client_order_id", "order_type",
    "self_matching_option", "input_price", "input_quantity", "is_bid",
    "pay_with_deep", "expiration", "clock">>

\* the arguments of pool::place_limit_order, in the order of the call
OrderCallArgs ==
  <<"pool", "manager", "trade_proof", "client_order_id", "order_type",
    "self_matching_option", "input_price", "input_quantity", "is_bid",
    "pay_with_deep", "expiration", "clock">>

\* let trade_proof_argument = { if let Some(trade_cap_id) = .. } of
\* DeepBookContract::place_limit_order: with a trade cap, the cap is
\* resolved and the proof is derived as trader; without, as owner
trade_proof_argument(cfg, ledgers, f, manager) ==
  IF manager.some /\ manager.v.trade_cap.some
    THEN generate_proof_as_trader(cfg,
           prepare_trade_cap_argument(ledgers, f, "trade_cap",
                                      manager.v.trade_cap.v),
           "trade_proof", "manager", "trade_cap")
  ELSE generate_proof_as_owner(cfg, f, "trade_proof", "manager")

\* DeepBookContract::place_limit_order (transactions/deepbook.rs)
DeepBookContract_place_limit_order(cfg, ledgers, b, p) ==
  LET \* Resolve default values
      expiration == unwrap_or(p.expiration, MAX_TIMESTAMP)
      order_type == unwrap_or(p.order_type, "NoRestriction")
      self_matching_option ==
        unwrap_or(p.self_matching_option, "SelfMatchingAllowed")
      pay_with_deep == unwrap_or(p.pay_with_deep, TRUE)
      \* Resolve required configuration and types
      pool == get_pool(cfg, p.pool_key)
      manager == get_balance_manager(cfg, p.manager_key)
      base_coin == get_coin(cfg, pool.v.base_coin)
      quote_coin == get_coin(cfg, pool.v.quote_coin)
      f1 == Require(NewFrame(b), pool.some, "PoolNotFound")
      f2 == Require(f1, manager.some, "ManagerNotFound")
      f3 == Require(f2, base_coin.some, "BaseCoinNotFound")
      f4 == Require(f3, quote_coin.some, "QuoteCoinNotFound")
      f5 == Require(f4, TypeTag_from_str(base_coin.v.type_).ok,
                    "TypeTagParse")
      f6 == Require(f5, TypeTag_from_str(quote_coin.v.type_).ok,
                    "TypeTagParse")
      \* Calculate input price and quantity
      input_price ==
        InputPriceOf(p.price, base_coin.v.scalar, quote_coin.v.scalar)
      input_quantity == InputQuantityOf(p.quantity, base_coin.v.scalar)
      \* Prepare arguments for PTB
      f7 == prepare_pool_argument(cfg, ledgers, f6, "pool", p.pool_key)
      f8 == prepare_balance_manager_argument(cfg, ledgers, f7, "manager",
                                             p.manager_key)
      f9 == prepare_sui_clock_argument(ledgers, f8, "clock")
      f10 == trade_proof_argument(cfg, ledgers, f9, manager)
      f11 == Require(f10, parse_u64(p.client_order_id).ok,
                     "ParseClientOrderId")
      f12 == OrderPures(f11, parse_u64(p.client_order_id).v, order_type,
                        self_matching_option, input_price, input_quantity,
                        p.is_bid, pay_with_deep, expiration)
      \* Add the programmable Move call
      package == ObjectID_from_hex_literal(cfg.deepbook_package_id)
      f13 == Require(f12, package.ok, "InvalidObjectID")
      f14 == Call(f13, "result", package.id, "pool", "place_limit_order",
                  <<TypeTag_from_str(base_coin.v.type_).tag,
                    TypeTag_from_str(quote_coin.v.type_).tag>>,
                  OrderCallArgs)
  IN Done(f14)

\* the object fetched inline by DeepBookClient is used as a shared object:
\* parse the address, one remote read, then the owner decides
ClientSharedFromParsed(ledger, b, id, mutable) ==
  IF ~id.ok THEN RErr(b, "InvalidObjectID", <<>>)
  ELSE IF LedgerGet(ledger, id.id).kind = "rpc_error"
    THEN RErr(b, "FetchFailed", <<id.id>>)
  ELSE IF LedgerGet(ledger, id.id).owner = "Shared"
    THEN ObjResult(PtbObj(b, SharedObject(id.id,
                                LedgerGet(ledger, id.id).isv, mutable)),
                   <<id.id>>)
  ELSE IF LedgerGet(ledger, id.id).owner # "None"
    THEN RErr(b, "MustBeShared", <<id.id>>)
  ELSE RErr(b, "NoOwner", <<id.id>>)

\* get_object_with_options and match owner(), inline in DeepBookClient
ClientSharedArgument(ledgers, f, slot, address, mutable) ==
  Awaited(ledgers, f, slot,
          ClientSharedFromParsed(LedgerOfRead(ledgers, f), f.ptb,
                                 ObjectID_from_hex_literal(address), mutable))

\* the trade cap fetched inline must be owned by an address
ClientTradeCapFromParsed_owned_only(ledger, b, id) ==
  IF ~id.ok THEN RErr(b, "InvalidObjectID", <<>>)
  ELSE IF LedgerGet(ledger, id.id).kind = "rpc_error"
    THEN RErr(b, "FetchFailed", <<id.id>>)
  ELSE IF LedgerGet(ledger, id.id).kind # "object"
    THEN RErr(b, "ObjectNotFound", <<id.id>>)
  ELSE IF LedgerGet(ledger, id.id).owner # "AddressOwner"
    THEN RErr(b, "MustBeOwned", <<id.id>>)
  ELSE ObjResult(PtbObj(b, ImmOrOwnedObject(id.id,
                              LedgerGet(ledger, id.id).version)),
                 <<id.id>>)

\* the trade cap fetched inline is used as an owned object whoever owns it
ClientTradeCapFromParsed(ledger, b, id) ==
  IF ~id.ok THEN RErr(b, "InvalidObjectID", <<>>)
  ELSE IF LedgerGet(ledger, id.id).kind = "rpc_error"
    THEN RErr(b, "FetchFailed", <<id.id>>)
  ELSE IF LedgerGet(ledger, id.id).kind # "object"
    THEN RErr(b, "ObjectNotFound", <<id.id>>)
  ELSE ObjResult(PtbObj(b, ImmOrOwnedObject(id.id,
                              LedgerGet(ledger, id.id).version)),
                 <<id.id>>)

\* get_object_with_options and object_ref_if_exists(), inline in
\* DeepBookClient::place_limit_order
ClientTradeCapArgument(ledgers, f, slot, trade_cap) ==
  Awaited(ledgers, f, slot,
          ClientTradeCapFromParsed(LedgerOfRead(ledgers, f), f.ptb,
                                   ObjectID_from_hex_literal(trade_cap)))

\* the owner path whatever the manager says
ClientTradeProofArgument_owner(cfg, ledgers, f, manager) ==
  generate_proof_as_owner(cfg, f, "trade_proof", "manager")

\* if let Some(trade_cap) = &manager.trade_cap { .. } else { .. } of
\* DeepBookClient::place_limit_order
ClientTradeProofArgument(cfg, ledgers, f, manager) ==
  IF manager.some /\ manager.v.trade_cap.some
    THEN generate_proof_as_trader(cfg,
           ClientTradeCapArgument(ledgers, f, "trade_cap",
                                  manager.v.trade_cap.v),
           "trade_proof", "manager", "trade_cap")
  ELSE generate_proof_as_owner(cfg, f, "trade_proof", "manager")

\* DeepBookClient::place_limit_order (client.rs)
DeepBookClient_place_limit_order(cfg, ledgers, b, p) ==
  LET \* default values
      expiration == unwrap_or(p.expiration, MAX_TIMESTAMP)
      order_type == unwrap_or(p.order_type, "NoRestriction")
      self_matching_option ==
        unwrap_or(p.self_matching_option, "SelfMatchingAllowed")
      pay_with_deep == unwrap_or(p.pay_with_deep, TRUE)
      pool == get_pool(cfg, p.pool_key)
      manager == get_balance_manager(cfg, p.manager_key)
      base_coin == get_coin(cfg, pool.v.base_coin)
      quote_coin == get_coin(cfg, pool.v.quote_coin)
      f1 == Require(NewFrame(b), pool.some, "PoolNotFound")
      f2 == Require(f1, manager.some, "ManagerNotFound")
      f3 == Require(f2, base_coin.some, "BaseCoinNotFound")
      f4 == Require(f3, quote_coin.some, "QuoteCoinNotFound")
      \* Calculate input price and quantity
      input_price ==
        InputPriceOf(p.price, base_coin.v.scalar, quote_coin.v.scalar)
      input_quantity == InputQuantityOf(p.quantity, base_coin.v.scalar)
      \* Convert to ObjectArgs
      f5 == ClientSharedArgument(ledgers, f4, "pool", pool.v.address, TRUE)
      f6 == ClientSharedArgument(ledgers, f5, "manager", manager.v.address,
                                 TRUE)
      f7 == ClientTradeProofArgument(cfg, ledgers, f6, manager)
      f8 == Require(f7, TypeTag_from_str(base_coin.v.type_).ok,
                    "TypeTagParse")
      f9 == Require(f8, TypeTag_from_str(quote_coin.v.type_).ok,
                    "TypeTagParse")
      f10 == ClientSharedArgument(ledgers, f9, "clock", SUI_CLOCK_OBJECT_ID,
                                  FALSE)
      f11 == Require(f10, parse_u64(p.client_order_id).ok,
                     "ParseClientOrderId")
      f12 == OrderPures(f11, parse_u64(p.client_order_id).v, order_type,
                        self_matching_option, input_price, input_quantity,
                        p.is_bid, pay_with_deep, expiration)
      \* Add the programmable Move call
      package == ObjectID_from_hex_literal(cfg.deepbook_package_id)
      f13 == Require(f12, package.ok, "InvalidObjectID")
      f14 == Call(f13, "result", package.id, "pool", "place_limit_order",
                  <<TypeTag_from_str(base_coin.v.type_).tag,
                    TypeTag_from_str(quote_coin.v.type_).tag>>,
                  OrderCallArgs)
  IN Done(f14)

\* DeepBookContract::account_open_orders (transactions/deepbook.rs)
DeepBookContract_account_open_orders(cfg, ledgers, b, p) ==
  LET pool == get_pool(cfg, p.pool_key)
      base_coin == get_coin(cfg, pool.v.base_coin)
      quote_coin == get_coin(cfg, pool.v.quote_coin)
      f1 == Require(NewFrame(b), pool.some, "PoolNotFound")
      f2 == Require(f1, base_coin.some, "BaseCoinNotFound")
      f3 == Require(f2, quote_coin.some, "QuoteCoinNotFound")
      f4 == Require(f3, TypeTag_from_str(base_coin.v.type_).ok,
                    "TypeTagParse")
      f5 == Require(f4, TypeTag_from_str(quote_coin.v.type_).ok,
                    "TypeTagParse")
      f6 == prepare_pool_argument(cfg, ledgers, f5, "pool", p.pool_key)
      f7 == prepare_balance_manager_argument(cfg, ledgers, f6, "manager",
                                             p.manager_key)
      package == ObjectID_from_hex_literal(cfg.deepbook_package_id)
      f8 == Require(f7, package.ok, "InvalidObjectID")
      f9 == Call(f8, "result", package.id, "pool", "account_open_orders",
                 <<TypeTag_from_str(base_coin.v.type_).tag,
                   TypeTag_from_str(quote_coin.v.type_).tag>>,
                 <<"pool", "manager">>)
  IN Done(f9)

\* Command::SplitCoins(Argument::GasCoin, vec![amount]) and ptb.command
SplitGasCoin(f, slot, amount_slot) ==
  Command(f, slot, SplitCoins(GasCoin, <<f.a[amount_slot]>>))

\* the balance manager is looked up and resolved before the coin is split
deposit_into_manager_manager_first(cfg, ledgers, b, p) ==
  LET coin == get_coin(cfg, p.coin_key)
      manager == get_balance_manager(cfg, p.manager_key)
      f1 == Expect(NewFrame(b), coin.some, "CoinNotFound")
      deposit_input == DepositInputOf(p.amount, coin.v.scalar)
      f2 == Require(f1, TypeTag_from_str(coin.v.type_).ok, "TypeTagParse")
      f3 == Require(f2, manager.some, "ManagerNotFound")
      f4 == ClientSharedArgument(ledgers, f3, "manager", manager.v.address,
                                 TRUE)
      f5 == Pure(f4, "amount", Bcs_u64(deposit_input))
      f6 == SplitGasCoin(f5, "target_coin", "amount")
      package == ObjectID_from_hex_literal(cfg.deepbook_package_id)
      f7 == Require(f6, package.ok, "InvalidObjectID")
      f8 == Call(f7, "result", package.id, "balance_manager", "deposit",
                 <<TypeTag_from_str(coin.v.type_).tag>>,
                 <<"manager", "target_coin">>)
  IN Done(f8)

\* DeepBookClient::deposit_into_manager (client.rs)
deposit_into_manager(cfg, ledgers, b, p) ==
  LET coin == get_coin(cfg, p.coin_key)
      manager == get_balance_manager(cfg, p.manager_key)
      \* .expect("Coin not found")
      f1 == Expect(NewFrame(b), coin.some, "CoinNotFound")
      deposit_input == DepositInputOf(p.amount, coin.v.scalar)
      f2 == Require(f1, TypeTag_from_str(coin.v.type_).ok, "TypeTagParse")
      f3 == Pure(f2, "amount", Bcs_u64(deposit_input))
      f4 == SplitGasCoin(f3, "target_coin", "amount")
      f5 == Require(f4, manager.some, "ManagerNotFound")
      f6 == ClientSharedArgument(ledgers, f5, "manager", manager.v.address,
                                 TRUE)
      package == ObjectID_from_hex_literal(cfg.deepbook_package_id)
      f7 == Require(f6, package.ok, "InvalidObjectID")
      f8 == Call(f7, "result", package.id, "balance_manager", "deposit",
                 <<TypeTag_from_str(coin.v.type_).tag>>,
                 <<"manager", "target_coin">>)
  IN Done(f8)

\* BCS of a SuiAddress: its 32 bytes
Bcs_address(a) == a

\* the balance manager is taken as an immutable shared object
mint_and_transfer_trade_cap_immutable(cfg, ledgers, b, p) ==
  LET manager == get_balance_manager(cfg, p.manager_key)
      f1 == Require(NewFrame(b), manager.some, "ManagerNotFound")
      f2 == ClientSharedArgument(ledgers, f1, "manager", manager.v.address,
                                 FALSE)
      package == ObjectID_from_hex_literal(cfg.deepbook_package_id)
      f3 == Require(f2, package.ok, "InvalidObjectID")
      f4 == Call(f3, "trade_cap", package.id, "balance_manager",
                 "mint_trade_cap", <<>>, <<"manager">>)
      trade_cap_type ==
        TypeTag_from_str([address |-> cfg.deepbook_package_id,
                          module |-> "balance_manager", name |-> "TradeCap"])
      f5 == Require(f4, trade_cap_type.ok, "TypeTagParse")
      f6 == Pure(f5, "receiver", Bcs_address(p.receiver))
      f7 == Call(f6, "result",
                 ObjectID_from_hex_literal(<<"0", "x", "2">>).id,
                 "transfer", "public_transfer", <<trade_cap_type.tag>>,
                 <<"trade_cap", "receiver">>)
  IN Done(f7)

\* the arms for a manager that is not shared fall through to Ok(())
mint_and_transfer_trade_cap_falls_through(cfg, ledgers, b, p) ==
  LET manager == get_balance_manager(cfg, p.manager_key)
      f1 == Require(NewFrame(b), manager.some, "ManagerNotFound")
      f2 == ClientSharedArgument(ledgers, f1, "manager", manager.v.address,
                                 TRUE)
      package == ObjectID_from_hex_literal(cfg.deepbook_package_id)
      f3 == Require(f2, package.ok, "InvalidObjectID")
      f4 == Call(f3, "trade_cap", package.id, "balance_manager",
                 "mint_trade_cap", <<>>, <<"manager">>)
      trade_cap_type ==
        TypeTag_from_str([address |-> cfg.deepbook_package_id,
                          module |-> "balance_manager", name |-> "TradeCap"])
      f5 == Require(f4, trade_cap_type.ok, "TypeTagParse")
      f6 == Pure(f5, "receiver", Bcs_address(p.receiver))
      f7 == Call(f6, "result",
                 ObjectID_from_hex_literal(<<"0", "x", "2">>).id,
                 "transfer", "public_transfer", <<trade_cap_type.tag>>,
                 <<"trade_cap", "receiver">>)
      r == Done(f7)
  IN IF r.err \in {"MustBeShared", "NoOwner"}
       THEN [r EXCEPT !.out = "Ok", !.err = "-"] ELSE r

\* DeepBookClient::mint_and_transfer_trade_cap (client.rs)
mint_and_transfer_trade_cap(cfg, ledgers, b, p) ==
  LET manager == get_balance_manager(cfg, p.manager_key)
      f1 == Require(NewFrame(b), manager.some, "ManagerNotFound")
      f2 == ClientSharedArgument(ledgers, f1, "manager", manager.v.address,
                                 TRUE)
      package == ObjectID_from_hex_literal(cfg.deepbook_package_id)
      f3 == Require(f2, package.ok, "InvalidObjectID")
      f4 == Call(f3, "trade_cap", package.id, "balance_manager",
                 "mint_trade_cap", <<>>, <<"manager">>)
      trade_cap_type ==
        TypeTag_from_str([address |-> cfg.deepbook_package_id,
                          module |-> "balance_manager", name |-> "TradeCap"])
      f5 == Require(f4, trade_cap_type.ok, "TypeTagParse")
      f6 == Pure(f5, "receiver", Bcs_address(p.receiver))
      f7 == Call(f6, "result",
                 ObjectID_from_hex_literal(<<"0", "x", "2">>).id,
                 "transfer", "public_transfer", <<trade_cap_type.tag>>,
                 <<"trade_cap", "receiver">>)
  IN Done(f7)

\* the operation composes on a new buffer and hands that one back
create_and_share_balance_manager_fresh(cfg, b) ==
  LET input_value == U64(10)
      f1 == Pure(NewFrame(NewPtb), "amount", Bcs_u64(input_value))
      package == ObjectID_from_hex_literal(cfg.deepbook_package_id)
      f2 == Expect(f1, package.ok, "InvalidObjectID")
      f3 == Command(f2, "result",
                    MoveCall(package.id, "balance_manager", "new", <<>>,
                             <<>>))
  IN Done(f3)

\* BalanceManagerContract::create_and_share_balance_manager
\* (transactions/balance_manager.rs), called by the operation of the same
\* name of DeepBookClient
create_and_share_balance_manager(cfg, b) ==
  LET input_value == U64(10)
      f1 == Pure(NewFrame(b), "amount", Bcs_u64(input_value))
      package == ObjectID_from_hex_literal(cfg.deepbook_package_id)
      \* .unwrap() of the package id
      f2 == Expect(f1, package.ok, "InvalidObjectID")
      f3 == Command(f2, "result",
                    MoveCall(package.id, "balance_manager", "new", <<>>,
                             <<>>))
  IN Done(f3)

\* ------------------------------------------------------------------------
\* Read-only simulation executor

\* what dev_inspect_transaction_block answers: a transport error, or a
\* response whose results are absent or a list of per-command results, each
\* with its list of return values (byte strings)
SimRpcError == [kind |-> "rpc_error", results |-> NoneV]
SimResults(results) == [kind |-> "ok", results |-> results]
ExecResult(return_values) == [return_values |-> return_values]

\* SuiAddress::from_str: 32 bytes in hexadecimal, with or without "0x"
SuiAddress_from_str(s) ==
  LET body == IF Len(s) >= 2 /\ s[1] = "0" /\ s[2] = "x"
                THEN SubSeq(s, 3, Len(s)) ELSE s
  IN Len(body) = 64 /\ \A i \in 1..64 : body[i] \in DOMAIN HexVal

\* `n as f64` for a u64 given by its bytes
u64_bytes_as_f64(bytes) == F64Round(FALSE, BigStrip(bytes), 0, FALSE)

\* q rounded up when what was cut off compares (c) above one half, or at
\* one half with q odd
RoundHalfEven(q, c) ==
  IF c > 0 \/ (c = 0 /\ BigBit(q, 0) = 1) THEN BigMulAdd(q, 1, 1) ELSE q

\* the integer nearest to X * 2^e, ties to even
RoundScaled(X, e) ==
  IF e >= 0 THEN BigShl(X, e)
  ELSE RoundHalfEven(BigShr(X, 0 - e),
                     BigCmp(BigLow(X, 0 - e), BigShl(<<1>>, (0 - e) - 1)))

\* the f64 nearest to N / 10^9
ParseNinths(neg, N) ==
  IF N = <<>> THEN F64Finite(neg, <<>>, 0)
  ELSE F64RoundDiv(neg, BigDivMod(BigShl(N, 88), BigOfNat(1000000000)),
                   0 - 88)

\* format!("{:.9}", a).parse::<f64>(): the decimal with nine fractional
\* digits nearest to a (ties to even), then the f64 nearest to that decimal
f64_format_9_parse(a) ==
  IF a.kind # "finite" THEN a
  ELSE ParseNinths(a.neg,
                   RoundScaled(BigMul(a.m, BigOfNat(1000000000)), a.e))

\* serde_json::json!(..) of an f64: a number when it is finite, null when it
\* is an infinity or not a number
JsonNull == [kind |-> "null", neg |-> FALSE, m |-> <<>>, e |-> 0]
Json_from_f64(a) == IF a.kind = "finite" THEN a ELSE JsonNull

\* BalanceManagerContract::check_manager_balance: the manager is looked up,
\* then balance_manager::balance<coin type>(manager).  The contract holds
\* the configuration and no client, and its caller does not await it: it
\* makes no remote read, and the manager is an object input given by its
\* address alone.
BalanceManagerContract_check_manager_balance(cfg, f, manager_key, coin) ==
  LET manager == get_balance_manager(cfg, manager_key)
      id == ObjectID_from_hex_literal(manager.v.address)
      f1 == Require(f, TypeTag_from_str(coin.type_).ok, "TypeTagParse")
      f2 == Require(f1, manager.some, "ManagerNotFound")
      f3 == Require(f2, id.ok, "InvalidObjectID")
      f4 == Added(f3, "manager",
                  PtbObj(f3.ptb,
                         [k |-> "Object", bytes |-> <<>>, id |-> id.id,
                          okind |-> "ByAddress", ver |-> 0,
                          mutable |-> FALSE]))
  IN Call(f4, "result",
          ObjectID_from_hex_literal(cfg.deepbook_package_id).id,
          "balance_manager", "balance",
          <<TypeTag_from_str(coin.type_).tag>>, <<"manager">>)

\* DeepBookClient::check_manager_balance (client.rs): composes on a buffer
\* of its own, simulates it and decodes the first return value.  Its one
\* .await is that of the simulation.
check_manager_balance(cfg, sim, p) ==
  LET coin == get_coin(cfg, p.coin_key)
      response == sim.v
      \* .expect("Coin not found")
      f1 == Expect(NewFrame(NewPtb), coin.some, "CoinNotFound")
      f2 == BalanceManagerContract_check_manager_balance(cfg, f1,
              p.manager_key, coin.v)
      \* SuiAddress::from_str(..).unwrap()
      f3 == AwaitedSim(Expect(f2, SuiAddress_from_str(cfg.address),
                              "InvalidAddress"), sim)
      f4 == Require(f3, response.kind # "rpc_error", "SimulationFailed")
      f5 == Require(f4, response.results.some, "MissingResults")
      f6 == Require(f5, Len(response.results.v) > 0, "MissingFirstResult")
      f7 == Require(f6, Len(response.results.v[1].return_values) > 0,
                    "MissingReturnValue")
      bytes == response.results.v[1].return_values[1]
      \* bcs::from_bytes::<u64>
      f8 == Require(f7, Len(bytes) = 8, "BcsDecode")
      balance_number == u64_bytes_as_f64(bytes)
      adjusted_balance == f64_div(balance_number, u64_as_f64(coin.v.scalar))
      f9 == Valued(f8, [coinType |-> coin.v.type_,
                        balance |->
                          Json_from_f64(
                            f64_format_9_parse(adjusted_balance))])
  IN Done(f9)

\* the ULEB128 number at the head of bytes, from byte i on, with acc read so
\* far and the next 7 bits worth mult each: a five byte limit, no trailing
\* zero byte.  A number above Len(bytes) is cut short: the sequence that it
\* announces cannot be there.
RECURSIVE UlebFrom(_, _, _, _)
UlebFrom(bytes, i, mult, acc) ==
  IF i > Len(bytes) \/ i > 5 THEN [ok |-> FALSE, v |-> 0, next |-> i]
  ELSE IF bytes[i] % 128 > 0 /\ mult > Len(bytes)
    THEN [ok |-> bytes[i] < 128, v |-> Len(bytes) + 1, next |-> i + 1]
  ELSE IF bytes[i] < 128
    THEN [ok |-> i = 1 \/ bytes[i] # 0, v |-> acc + bytes[i] * mult,
          next |-> i + 1]
  ELSE UlebFrom(bytes, i + 1, mult * 128, acc + (bytes[i] % 128) * mult)

\* bcs::from_bytes::<VecSet<u128>>: the number n of items, then n items of
\* 16 bytes each, and nothing after them
Bcs_VecSet_u128(bytes) ==
  LET n == UlebFrom(bytes, 1, 1, 0)
  IN IF n.ok /\ Len(bytes) = (n.next - 1) + 16 * n.v
       THEN [ok |-> TRUE,
             contents |-> [k \in 1..n.v |->
                             SubSeq(bytes, n.next + 16 * (k - 1),
                                    n.next + 16 * k - 1)]]
       ELSE [ok |-> FALSE, contents |-> <<>>]

\* the first return value of the first result, or no bytes
FirstReturnValueOrEmpty(response) ==
  IF /\ response.results.some
     /\ Len(response.results.v) > 0
     /\ Len(response.results.v[1].return_values) > 0
    THEN response.results.v[1].return_values[1] ELSE <<>>

\* if let Err(e) = callee(..) { return Err(e); }: the caller goes on with
\* the buffer that the callee returned in r, or returns its error
Resumed(r) ==
  [NewFrame(r.ptb) EXCEPT !.out = IF r.out = "Ok" THEN "-" ELSE r.out,
                          !.err = r.err, !.reads = r.reads]

\* DeepBookClient::account_open_orders (client.rs): composes on a buffer of
\* its own with DeepBookContract::account_open_orders, whose two remote
\* reads it waits for and whose error it returns, simulates the buffer and
\* decodes the first return value
DeepBookClient_account_open_orders(cfg, ledgers, sim, p) ==
  LET response == sim.v
      f1 == Resumed(DeepBookContract_account_open_orders(cfg, ledgers,
                                                          NewPtb, p))
      \* SuiAddress::from_str(..).unwrap()
      f2 == AwaitedSim(Expect(f1, SuiAddress_from_str(cfg.address),
                              "InvalidAddress"), sim)
      f3 == Require(f2, response.kind # "rpc_error", "SimulationFailed")
      order_ids == Bcs_VecSet_u128(FirstReturnValueOrEmpty(response))
      f4 == Require(f3, order_ids.ok, "ParseVecSet")
      f5 == Valued(f4, order_ids.contents)
  IN Done(f5)

\* ------------------------------------------------------------------------
\* The state machine: a caller composes operations, one after the other, on
\* one buffer.  An operation is a future: a step takes it from its call to
\* its first remote read, from the answer to one read to the next read, or
\* to its return; while it is suspended (`out` is "Await", or "AwaitSim" at
\* a simulation) the buffer holds what it has composed so far, and the
\* ledger may answer each read differently.  `last` records the latest
\* operation: its arguments, what the ledger answered to each of its reads,
\* its outcome, the buffer it composed on as it is now (`built`) and as the
\* operation found it (`before`).

\* the number of operations composed on the buffer
MaxOps == 2

PoolKeys == {"DEEP_SUI", "CLOCKP", "ORPHAN", "NOPE"}
ManagerKeys == {"MANAGER_1", "MANAGER_2", "NOPE"}
CoinKeys == {"SUI", "BAD", "NOPE"}
ClientOrderIds == {<<"4", "2">>, <<"x">>}
Receivers == {[i \in 1..32 |-> IF i = 32 THEN 9 ELSE 0]}
Expirations == {NoneV, Some(U64(0)), Some(U64(1700000000))}
OrderTypes ==
  {NoneV, Some("NoRestriction"), Some("ImmediateOrCancel"),
   Some("FillOrKill"), Some("PostOnly")}
SelfMatchingOptions ==
  {NoneV, Some("SelfMatchingAllowed"), Some("CancelTaker"),
   Some("CancelMaker")}
PayWithDeeps == {NoneV, Some(TRUE), Some(FALSE)}
SimResponses ==
  {SimRpcError, SimResults(NoneV), SimResults(Some(<<>>)),
   SimResults(Some(<<ExecResult(<<>>)>>)),
   SimResults(Some(<<ExecResult(<<U64(1500000000)>>)>>)),
   SimResults(Some(<<ExecResult(<<<<1, 2>>>>)>>))}
GoodSimResponse == SimResults(Some(<<ExecResult(<<U64(1500000000)>>)>>))

\* a set of two order ids, and the empty set, in BCS
OrderIdsBcs == <<2>> \o [i \in 1..32 |-> IF i = 1 THEN 7 ELSE 0]
GoodOrderResponse == SimResults(Some(<<ExecResult(<<OrderIdsBcs>>)>>))
SimOrderResponses ==
  SimResponses \cup
  {GoodOrderResponse, SimResults(Some(<<ExecResult(<<<<0>>>>)>>))}

NoArgs ==
  [pool_key |-> "-", manager_key |-> "-", coin_key |-> "-",
   client_order_id |-> <<>>, price |-> F64Zero, quantity |-> F64Zero,
   amount |-> F64Zero, is_bid |-> FALSE, expiration |-> NoneV,
   order_type |-> NoneV, self_matching_option |-> NoneV,
   pay_with_deep |-> NoneV, receiver |-> <<>>]

Init ==
  /\ config = ModelConfig
  /\ ptb = NewPtb
  /\ last = [op |-> "none", args |-> NoArgs, responses |-> <<>>,
             out |-> "-", err |-> "-", reads |-> <<>>, built |-> NewPtb,
             before |-> NewPtb, value |-> NoneV]
  /\ nops = 0

\* the caller can go on once the last operation has returned, unless it
\* panicked
CanCompose ==
  nops < MaxOps /\ last.out \notin {"Panic", "Await", "AwaitSim"}

\* the runs explored have at most one thing wrong: any arguments against
\* the healthy ledger, or the reference arguments against any ledger
OneFault(reference, ledger) == reference \/ ledger = HealthyLedger

OrderArgs(pool_key, manager_key, client_order_id, price, quantity, is_bid, expiration, order_type, self_matching_option, pay_with_deep) ==
  [NoArgs EXCEPT !.pool_key = pool_key, !.manager_key = manager_key,
     !.client_order_id = client_order_id, !.price = price,
     !.quantity = quantity, !.is_bid = is_bid, !.expiration = expiration,
     !.order_type = order_type,
     !.self_matching_option = self_matching_option,
     !.pay_with_deep = pay_with_deep]

\* an order with every optional parameter omitted
PlainOrder(pool_key, manager_key, client_order_id) ==
  OrderArgs(pool_key, manager_key, client_order_id, F64_0_02, F64_10, TRUE,
            NoneV, NoneV, NoneV, NoneV)

\* Ok(argument) at the end of a resolution called on its own
ReturnsArgument(f) == Done(Valued(f, f.a["result"]))

\* the resolutions, called on their own: Ok(argument) at their end
PoolArgument(cfg, ledgers, b, p) ==
  ReturnsArgument(prepare_pool_argument(cfg, ledgers, NewFrame(b), "result",
                                        p.pool_key))

BalanceManagerArgument(cfg, ledgers, b, p) ==
  ReturnsArgument(prepare_balance_manager_argument(cfg, ledgers, NewFrame(b),
                                                   "result", p.manager_key))

SuiClockArgument(ledgers, b) ==
  ReturnsArgument(prepare_sui_clock_argument(ledgers, NewFrame(b), "result"))

SharedObjectArgument(ledgers, b, p) ==
  ReturnsArgument(Awaited(ledgers, NewFrame(b), "result",
    prepare_shared_object_argument(LedgerOfRead(ledgers, NewFrame(b)), b,
                                   p.object_id, p.mutable)))

ImmOrOwnedObjectArgument(ledgers, b, p) ==
  ReturnsArgument(Awaited(ledgers, NewFrame(b), "result",
    prepare_imm_or_owned_object_argument(LedgerOfRead(ledgers, NewFrame(b)),
                                         b, p.object_id)))

\* the resolution of its pool that DeepBookClient::place_limit_order makes
\* inline
ClientPoolArgument(ledgers, b, p) ==
  ReturnsArgument(ClientSharedArgument(ledgers, NewFrame(b), "result",
                                       p.object_id, TRUE))

\* the operation `op` called with arguments p on the buffer b, its reads
\* answered so far by `ledgers` and its simulation not yet
Run(op, cfg, ledgers, b, p) ==
  CASE op \in {"DeepBookClient::place_limit_order",
               "place_limit_order/both"} ->
         DeepBookClient_place_limit_order(cfg, ledgers, b, p)
    [] op \in {"DeepBookContract::place_limit_order",
               "DeepBookContract::place_limit_order/copy"} ->
         DeepBookContract_place_limit_order(cfg, ledgers, b, p)
    [] op = "account_open_orders" ->
         DeepBookContract_account_open_orders(cfg, ledgers, b, p)
    [] op = "DeepBookClient::account_open_orders" ->
         DeepBookClient_account_open_orders(cfg, ledgers, NoneV, p)
    [] op = "deposit_into_manager" ->
         deposit_into_manager(cfg, ledgers, b, p)
    [] op = "mint_and_transfer_trade_cap" ->
         mint_and_transfer_trade_cap(cfg, ledgers, b, p)
    [] op = "prepare_pool_argument" -> PoolArgument(cfg, ledgers, b, p)
    [] op = "prepare_balance_manager_argument" ->
         BalanceManagerArgument(cfg, ledgers, b, p)
    [] op = "prepare_sui_clock_argument" -> SuiClockArgument(ledgers, b)
    [] op = "prepare_shared_object_argument" ->
         SharedObjectArgument(ledgers, b, p)
    [] op = "prepare_imm_or_owned_object_argument" ->
         ImmOrOwnedObjectArgument(ledgers, b, p)
    [] op = "DeepBookClient::place_limit_order/pool" ->
         ClientPoolArgument(ledgers, b, p)

\* the simulation `op`, its reads answered by `ledgers` and its simulation
\* by `response`
RunSimulated(op, cfg, ledgers, response, p) ==
  IF op = "check_manager_balance"
    THEN check_manager_balance(cfg, Some(response), p)
  ELSE DeepBookClient_account_open_orders(cfg, ledgers, Some(response), p)

\* the operations that compose on a buffer of their own
OwnBuffer(op) ==
  op \in {"check_manager_balance", "DeepBookClient::account_open_orders",
          "DeepBookContract::place_limit_order/copy"}

\* what each read of the operation recorded in l was answered, as the
\* ledgers of those moments
Answers(l) ==
  [k \in 1..Len(l.reads) |-> [id \in {l.reads[k]} |-> l.responses[k]]]

\* the record of the operation `op` called with `args` on the buffer
\* `before`, which returned r or is suspended at r
Recorded(op, args, ledgers, before, r) ==
  [op |-> op, args |-> args,
   responses |-> [i \in 1..Len(r.reads) |->
                    LedgerGet(ledgers[i], r.reads[i])],
   out |-> r.out, err |-> r.err, reads |-> r.reads, built |-> r.ptb,
   before |-> before, value |-> r.value]

\* the operation of l has the caller's buffer, or one of its own
Composed(l) ==
  /\ ptb' = IF OwnBuffer(l.op) THEN ptb ELSE l.built
  /\ UNCHANGED config

\* the buffer that the operation `op` is given
BufferFor(op) == IF OwnBuffer(op) THEN NewPtb ELSE ptb

\* the caller calls `op` with `args`: it runs until it returns or comes to
\* its first remote read, which is r
Begin(op, args, r) ==
  /\ last' = Recorded(op, args, <<>>, BufferFor(op), r)
  /\ Composed(last')
  /\ nops' = nops + 1

\* the read the operation is suspended at is answered by `ledger`: the
\* operation runs on until it returns or comes to its next read
Resume(ledger) ==
  /\ last.out = "Await"
  /\ last' = Recorded(last.op, last.args, Answers(last) \o <<ledger>>,
                      last.before,
                      Run(last.op, config, Answers(last) \o <<ledger>>,
                          last.before, last.args))
  /\ Composed(last')
  /\ UNCHANGED nops

\* the simulation the operation is suspended at answers `response`: the
\* operation runs to its end; `last.args` keeps the answer
Simulate(response) ==
  /\ last.out = "AwaitSim"
  /\ last' = Recorded(last.op, [response |-> response] @@ last.args,
                      Answers(last), last.before,
                      RunSimulated(last.op, config, Answers(last), response,
                                   last.args))
  /\ Composed(last')
  /\ UNCHANGED nops

\* the arguments with which an operation is explored against every ledger
Reference(op, args) ==
  CASE op \in {"DeepBookClient::place_limit_order",
               "DeepBookContract::place_limit_order"} ->
         /\ args.pool_key \in {"DEEP_SUI", "CLOCKP"}
         /\ args.manager_key \in {"MANAGER_1", "MANAGER_2"}
         /\ args.client_order_id = <<"4", "2">>
    [] op \in {"account_open_orders",
               "DeepBookClient::account_open_orders"} ->
         args.pool_key = "DEEP_SUI" /\ args.manager_key = "MANAGER_1"
    [] op = "deposit_into_manager" ->
         /\ args.manager_key = "MANAGER_1"
         /\ args.coin_key = "SUI"
         /\ args.amount = F64_0_1
    [] op = "check_manager_balance" ->
         args.manager_key = "MANAGER_1" /\ args.coin_key = "SUI"
    [] op = "prepare_pool_argument" -> args.pool_key = "DEEP_SUI"
    [] op = "prepare_sui_clock_argument" -> TRUE
    [] OTHER -> args.manager_key = "MANAGER_1"

\* every read of the latest operation was answered as the healthy ledger
\* answers
HealthyReads ==
  \A k \in 1..Len(last.reads) :
    last.responses[k] = LedgerGet(HealthyLedger, last.reads[k])

PlaceLimitOrder ==
  /\ CanCompose
  /\ \E pool_key \in PoolKeys, manager_key \in ManagerKeys,
        client_order_id \in ClientOrderIds :
       LET args == PlainOrder(pool_key, manager_key, client_order_id)
       IN Begin("DeepBookClient::place_limit_order", args,
                DeepBookClient_place_limit_order(config, <<>>, ptb, args))

ContractPlaceLimitOrder ==
  /\ CanCompose
  /\ \E pool_key \in PoolKeys, manager_key \in ManagerKeys,
        client_order_id \in ClientOrderIds :
       LET args == PlainOrder(pool_key, manager_key, client_order_id)
       IN Begin("DeepBookContract::place_limit_order", args,
                DeepBookContract_place_limit_order(config, <<>>, ptb, args))

AccountOpenOrders ==
  /\ CanCompose
  /\ \E pool_key \in PoolKeys, manager_key \in ManagerKeys :
       LET args == [NoArgs EXCEPT !.pool_key = pool_key,
                                  !.manager_key = manager_key]
       IN Begin("account_open_orders", args,
                DeepBookContract_account_open_orders(config, <<>>, ptb, args))

DepositIntoManager ==
  /\ CanCompose
  /\ \E manager_key \in ManagerKeys, coin_key \in CoinKeys,
        amount \in ModelAmounts :
       LET args == [NoArgs EXCEPT !.manager_key = manager_key,
                                  !.coin_key = coin_key, !.amount = amount]
       IN Begin("deposit_into_manager", args,
                deposit_into_manager(config, <<>>, ptb, args))

MintAndTransferTradeCap ==
  /\ CanCompose
  /\ \E manager_key \in ManagerKeys, receiver \in Receivers :
       LET args == [NoArgs EXCEPT !.manager_key = manager_key,
                                  !.receiver = receiver]
       IN Begin("mint_and_transfer_trade_cap", args,
                mint_and_transfer_trade_cap(config, <<>>, ptb, args))

CreateAndShareBalanceManager ==
  /\ CanCompose
  /\ Begin("create_and_share_balance_manager", NoArgs,
           create_and_share_balance_manager(config, ptb))

\* check_manager_balance composes on a buffer of its own
CheckManagerBalance ==
  /\ CanCompose
  /\ \E manager_key \in ManagerKeys, coin_key \in CoinKeys :
       LET args == [NoArgs EXCEPT !.manager_key = manager_key,
                                  !.coin_key = coin_key]
       IN Begin("check_manager_balance", args,
                check_manager_balance(config, NoneV, args))

ClientAccountOpenOrders ==
  /\ CanCompose
  /\ \E pool_key \in PoolKeys, manager_key \in ManagerKeys :
       LET args == [NoArgs EXCEPT !.pool_key = pool_key,
                                  !.manager_key = manager_key]
       IN Begin("DeepBookClient::account_open_orders", args,
                DeepBookClient_account_open_orders(config, <<>>, NoneV, args))

\* the three resolutions by key, called on their own
PreparePoolArgument ==
  /\ CanCompose
  /\ \E pool_key \in PoolKeys :
       LET args == [NoArgs EXCEPT !.pool_key = pool_key]
       IN Begin("prepare_pool_argument", args,
                PoolArgument(config, <<>>, ptb, args))

PrepareBalanceManagerArgument ==
  /\ CanCompose
  /\ \E manager_key \in ManagerKeys :
       LET args == [NoArgs EXCEPT !.manager_key = manager_key]
       IN Begin("prepare_balance_manager_argument", args,
                BalanceManagerArgument(config, <<>>, ptb, args))

PrepareSuiClockArgument ==
  /\ CanCompose
  /\ Begin("prepare_sui_clock_argument", NoArgs,
           SuiClockArgument(<<>>, ptb))

\* get_object_with_options answers the read that the operation awaits, as
\* the ledger of that moment has it (two ledgers that answer this read the
\* same give the same step: every ledger but the healthy one is taken for
\* the reads it answers otherwise)
RemoteRead ==
  \E ledger \in ModelLedgers :
    /\ OneFault(Reference(last.op, last.args), ledger)
    /\ Resume(ledger)
    /\ \/ ledger = HealthyLedger
       \/ last'.responses[Len(last'.responses)] #
            LedgerGet(HealthyLedger, last'.reads[Len(last'.reads)])

\* dev_inspect_transaction_block answers the simulation that the operation
\* awaits
Simulation ==
  \E response \in SimOrderResponses :
    /\ \/ response = IF last.op = "check_manager_balance"
                       THEN GoodSimResponse ELSE GoodOrderResponse
       \/ /\ Reference(last.op, last.args)
          /\ HealthyReads
          /\ last.op = "check_manager_balance" => response \in SimResponses
    /\ Simulate(response)

Next ==
  \/ PlaceLimitOrder
  \/ ContractPlaceLimitOrder
  \/ AccountOpenOrders
  \/ ClientAccountOpenOrders
  \/ DepositIntoManager
  \/ MintAndTransferTradeCap
  \/ CreateAndShareBalanceManager
  \/ CheckManagerBalance
  \/ PreparePoolArgument
  \/ PrepareBalanceManagerArgument
  \/ PrepareSuiClockArgument
  \/ RemoteRead
  \/ Simulation

Spec == Init /\ [][Next]_vars

\* every combination of the optional parameters of an order
ModelOrders ==
  {OrderArgs("DEEP_SUI", manager_key, <<"4", "2">>, price, quantity, is_bid,
             expiration, order_type, self_matching_option, pay_with_deep) :
     manager_key \in {"MANAGER_1", "MANAGER_2"}, price \in ModelPrices,
     quantity \in ModelQuantities, is_bid \in BOOLEAN,
     expiration \in Expirations, order_type \in OrderTypes,
     self_matching_option \in SelfMatchingOptions,
     pay_with_deep \in PayWithDeeps}

\* one order on an empty buffer
PlaceOneOrder ==
  /\ nops = 0
  /\ \E args \in ModelOrders :
       Begin("DeepBookClient::place_limit_order", args,
             DeepBookClient_place_limit_order(config, <<>>, ptb, args))

ContractPlaceOneOrder ==
  /\ nops = 0
  /\ \E args \in ModelOrders :
       Begin("DeepBookContract::place_limit_order", args,
             DeepBookContract_place_limit_order(config, <<>>, ptb, args))

\* the healthy ledger answers the read that the operation awaits
HealthyRead == Resume(HealthyLedger)

NextOrder ==
  \/ PlaceOneOrder
  \/ ContractPlaceOneOrder
  \/ HealthyRead

SpecOrder == Init /\ [][NextOrder]_vars

TypeOK ==
  /\ config = ModelConfig
  /\ nops \in 0..MaxOps
  /\ last.out \in {"-", "Ok", "Err", "Panic", "Await", "AwaitSim"}

\* ------------------------------------------------------------------------
\* Reading the buffer of the latest operation

OrderOps ==
  {"DeepBookClient::place_limit_order", "DeepBookContract::place_limit_order"}
IsOrder == last.op \in OrderOps

\* the latest operation has returned to its caller, or panicked: it is not
\* suspended at a remote read or at a simulation
HasReturned == last.out \in {"Ok", "Err", "Panic"}

\* the commands the latest operation appended
NewCommands ==
  SubSeq(last.built.commands, Len(last.before.commands) + 1,
         Len(last.built.commands))

\* the last command of the buffer the latest operation composed on
LastCommand == last.built.commands[Len(last.built.commands)]

\* arg refers to a pure input of b holding bytes
IsPureArg(b, arg, bytes) ==
  /\ arg.a = "Input"
  /\ arg.i < Len(b.inputs)
  /\ b.inputs[arg.i + 1].k = "Pure"
  /\ b.inputs[arg.i + 1].bytes = bytes

\* arg refers to an object input of b for the object id
IsObjectArg(b, arg, id) ==
  /\ arg.a = "Input"
  /\ arg.i < Len(b.inputs)
  /\ b.inputs[arg.i + 1].k = "Object"
  /\ b.inputs[arg.i + 1].id = id

IsProofCall(cmd) ==
  /\ cmd.c = "MoveCall"
  /\ cmd.module = "balance_manager"
  /\ cmd.function \in {"generate_proof_as_owner", "generate_proof_as_trader"}

\* arg is the result of a proof invocation of b
IsProofArg(b, arg) ==
  /\ arg.a = "Result"
  /\ arg.i < Len(b.commands)
  /\ IsProofCall(b.commands[arg.i + 1])

IsCall(cmd, module, function) ==
  cmd.c = "MoveCall" /\ cmd.module = module /\ cmd.function = function

\* the value of an optional parameter, or what stands for an omitted one
OrElse(opt, default) == IF opt.some THEN opt.v ELSE default

\* the contract's encodings of the order type and self-matching option
OrderTypeCode ==
  "NoRestriction" :> 0 @@ "ImmediateOrCancel" :> 1 @@ "FillOrKill" :> 2 @@
  "PostOnly" :> 3
SelfMatchingCode ==
  "SelfMatchingAllowed" :> 0 @@ "CancelTaker" :> 1 @@ "CancelMaker" :> 2

\* the type of a coin of the configuration, as a type parameter
CoinTypeTag(coin_key) ==
  [address |-> ObjId(config.coins[coin_key].type_.address),
   module |-> config.coins[coin_key].type_.module,
   name |-> config.coins[coin_key].type_.name]

\* ------------------------------------------------------------------------
\* The conversions, on their own: one operation on an empty buffer against
\* the healthy ledger, over a range of amounts and of coin scalars, and the
\* balance read back after an order.

F64_0_000123456789 == F64Lit(<<65, 24, 17, 190, 133, 46, 16>>, 0 - 65)
F64_1_9999999 == F64Lit(<<101, 13, 40, 229, 255, 255, 31>>, 0 - 52)
F64_0_0000005 == F64Lit(<<141, 237, 181, 160, 247, 198, 16>>, 0 - 73)
F64_0_1234567891 == F64Lit(<<223, 86, 167, 55, 221, 154, 31>>, 0 - 56)
F64_2e13 == F64Lit(<<0, 0, 64, 229, 156, 48, 18>>, 0 - 8)
F64_1234567_5 == F64Lit(<<0, 0, 0, 128, 135, 214, 18>>, 0 - 32)
F64_4400000_000000009 == F64Lit(<<10, 0, 0, 0, 224, 200, 16>>, 0 - 30)

ConvertPrices == {F64_0_02, F64_1_5, F64_0_000123456789, F64_2e13}
ConvertQuantities ==
  {F64_10, F64_0_1, F64_1_9999999, F64_0_0000005, F64_0_1234567891, F64_2e13,
   F64_1234567_5, F64_4400000_000000009}
ConvertAmounts ==
  {F64_0_1, F64_2_5, F64_1_9999999, F64_0_1234567891, F64_2e13}
ConvertScalars == {1000000, 100000000, 1000000000}

\* the model's configuration with DEEP (the base coin of the pool) and SUI
\* (its quote coin) given the scalars b and q
ConvertConfig(b, q) ==
  DeepBookConfig_new("testnet", ADDR_CALLER, NoneV, ModelManagers,
                     Some([ModelCoins EXCEPT !["DEEP"].scalar = b,
                                             !["SUI"].scalar = q]),
                     Some(ModelPools))

InitConvert ==
  /\ config \in {ConvertConfig(b, q) : b \in ConvertScalars,
                                      q \in ConvertScalars}
  /\ ptb = NewPtb
  /\ last = [op |-> "none", args |-> NoArgs, responses |-> <<>>,
             out |-> "-", err |-> "-", reads |-> <<>>, built |-> NewPtb,
             before |-> NewPtb, value |-> NoneV]
  /\ nops = 0

\* an order that differs from the reference one in its price or its quantity
ConvertOrderArgs(price, quantity) ==
  OrderArgs("DEEP_SUI", "MANAGER_1", <<"4", "2">>, price, quantity, TRUE,
            NoneV, NoneV, NoneV, NoneV)

ConvertOrder ==
  /\ nops = 0
  /\ \E price \in ConvertPrices, quantity \in ConvertQuantities :
       /\ price = F64_0_02 \/ quantity = F64_10
       /\ LET args == ConvertOrderArgs(price, quantity)
          IN Begin("DeepBookClient::place_limit_order", args,
                   DeepBookClient_place_limit_order(config, <<>>, ptb, args))

ConvertContractOrder ==
  /\ nops = 0
  /\ \E price \in ConvertPrices, quantity \in ConvertQuantities :
       /\ price = F64_0_02 \/ quantity = F64_10
       /\ LET args == ConvertOrderArgs(price, quantity)
          IN Begin("DeepBookContract::place_limit_order", args,
                   DeepBookContract_place_limit_order(config, <<>>, ptb, args))

ConvertDeposit ==
  /\ nops = 0
  /\ \E coin_key \in {"DEEP", "SUI"}, amount \in ConvertAmounts :
       LET args == [NoArgs EXCEPT !.manager_key = "MANAGER_1",
                                  !.coin_key = coin_key, !.amount = amount]
       IN Begin("deposit_into_manager", args,
                deposit_into_manager(config, <<>>, ptb, args))

\* the bytes of the pure input that the latest order passed as quantity
OrderedUnits == last.built.inputs[LastCommand.args[8].i + 1].bytes

\* the manager's balance of the base coin is read back after an order;
\* `last.args` keeps the order, and the integer units that it was given
ConvertBalance ==
  /\ nops = 1
  /\ IsOrder
  /\ last.out = "Ok"
  /\ LET args == [order |-> last.args, units |-> OrderedUnits] @@
                 [NoArgs EXCEPT !.manager_key = last.args.manager_key,
                                !.coin_key =
                                  config.pools[last.args.pool_key].base_coin]
     IN Begin("check_manager_balance", args,
              check_manager_balance(config, NoneV, args))

\* the simulation answers the integer units that the order was given
ConvertSimulation ==
  /\ last.out = "AwaitSim"
  /\ Simulate(SimResults(Some(<<ExecResult(<<last.args.units>>)>>)))

NextConvert ==
  \/ ConvertOrder
  \/ ConvertContractOrder
  \/ ConvertDeposit
  \/ ConvertBalance
  \/ HealthyRead
  \/ ConvertSimulation

SpecConvert == InitConvert /\ [][NextConvert]_vars

\* ------------------------------------------------------------------------
\* The configuration registry, on its own: a configuration is constructed
\* from an environment name and optional tables, then looked up by key.
\* `last.args` keeps what the constructor was given.

ConfigEnvs == {"mainnet", "testnet", "foo", ""}
ConfigAddresses == {ADDR_CALLER, ADDR_M1}
ConfigAdminCaps == {NoneV, Some(ADDR_CAP)}

\* tables of the caller: one coin and one pool that no network has
CustomCoins ==
  [k \in {"XYZ"} |->
     [address |-> ADDR_ORPHAN,
      type_ |-> [address |-> ADDR_ORPHAN, module |-> "xyz", name |-> "XYZ"],
      scalar |-> 1000]]
CustomPools ==
  [k \in {"XYZ_SUI"} |->
     [address |-> ADDR_POOL, base_coin |-> "XYZ", quote_coin |-> "SUI"]]

ConfigCoinTables == {NoneV, Some(ModelCoins), Some(CustomCoins)}
ConfigPoolTables == {NoneV, Some(ModelPools), Some(CustomPools)}
ConfigKeys == {"DEEP", "SUI", "XYZ", "DEEP_SUI", "XYZ_SUI", "NOPE"}

\* DeepBookConfig::new(env, address, admin_cap, coins, pools)
InitConfig ==
  \E env \in ConfigEnvs, address \in ConfigAddresses,
     admin_cap \in ConfigAdminCaps, coins \in ConfigCoinTables,
     pools \in ConfigPoolTables :
    /\ config = DeepBookConfig_new(env, address, admin_cap, ModelManagers,
                                   coins, pools)
    /\ ptb = NewPtb
    /\ last = [op |-> "DeepBookConfig::new",
               args |-> [env |-> env, address |-> address,
                         admin_cap |-> admin_cap, coins |-> coins,
                         pools |-> pools, key |-> ""],
               responses |-> <<>>, out |-> "Ok", err |-> "-",
               reads |-> <<>>, built |-> NewPtb, before |-> NewPtb,
               value |-> NoneV]
    /\ nops = 0

\* config.get_coin(key)
GetCoin ==
  /\ \E key \in ConfigKeys :
       last' = [last EXCEPT !.op = "get_coin", !.args.key = key,
                            !.value = get_coin(config, key)]
  /\ UNCHANGED <<config, ptb, nops>>

\* config.get_pool(key)
GetPool ==
  /\ \E key \in ConfigKeys :
       last' = [last EXCEPT !.op = "get_pool", !.args.key = key,
                            !.value = get_pool(config, key)]
  /\ UNCHANGED <<config, ptb, nops>>

NextConfig ==
  \/ GetCoin
  \/ GetPool

SpecConfig == InitConfig /\ [][NextConfig]_vars

\* ------------------------------------------------------------------------
\* The read-only simulations, on their own: one simulation, over what the
\* remote reads made before it and the simulation can answer.  `last.args`
\* keeps the answer next to the arguments, once it is given.

SimCheckManagerBalance ==
  /\ nops = 0
  /\ \E manager_key \in ManagerKeys, coin_key \in CoinKeys :
       LET args == [NoArgs EXCEPT !.manager_key = manager_key,
                                  !.coin_key = coin_key]
       IN Begin("check_manager_balance", args,
                check_manager_balance(config, NoneV, args))

SimAccountOpenOrders ==
  /\ nops = 0
  /\ \E pool_key \in PoolKeys, manager_key \in ManagerKeys :
       LET args == [NoArgs EXCEPT !.pool_key = pool_key,
                                  !.manager_key = manager_key]
       IN Begin("DeepBookClient::account_open_orders", args,
                DeepBookClient_account_open_orders(config, <<>>, NoneV, args))

\* dev_inspect_transaction_block answers the simulation awaited
SimAnswer == \E response \in SimOrderResponses : Simulate(response)

NextSim ==
  \/ SimCheckManagerBalance
  \/ SimAccountOpenOrders
  \/ RemoteRead
  \/ SimAnswer

SpecSim == Init /\ [][NextSim]_vars

\* ------------------------------------------------------------------------
\* Two compositions driven concurrently.  An order is a future: it runs
\* from one remote read to just before the next one and can be suspended
\* there.  Here `ptb` holds one buffer per composition, `last.ledger` is the
\* ledger of the moment, and `last.tasks` keeps, per composition, the order
\* it runs, where it is, what it obtained so far and what each of its reads
\* was answered.

\* ptb: &mut ProgrammableTransactionBuilder: every composition is handed
\* the one buffer
BufferOf_shared(bufs, i) == bufs[1]

\* ptb: &mut ProgrammableTransactionBuilder: the buffer the caller hands to
\* the i-th composition
BufferOf(bufs, i) == bufs[i]

\* the lookups of DeepBookClient::place_limit_order, before its first read
ClientOrderLookups(cfg, f, p) ==
  Require(Require(Require(Require(f,
    get_pool(cfg, p.pool_key).some, "PoolNotFound"),
    get_balance_manager(cfg, p.manager_key).some, "ManagerNotFound"),
    get_coin(cfg, get_pool(cfg, p.pool_key).v.base_coin).some,
      "BaseCoinNotFound"),
    get_coin(cfg, get_pool(cfg, p.pool_key).v.quote_coin).some,
      "QuoteCoinNotFound")

\* the proof, and the two type tags parsed after it
ClientOrderProof(cfg, ledgers, f, p) ==
  Require(Require(
    ClientTradeProofArgument(cfg, ledgers, f,
                             get_balance_manager(cfg, p.manager_key)),
    TypeTag_from_str(get_coin(cfg,
      get_pool(cfg, p.pool_key).v.base_coin).v.type_).ok, "TypeTagParse"),
    TypeTag_from_str(get_coin(cfg,
      get_pool(cfg, p.pool_key).v.quote_coin).v.type_).ok, "TypeTagParse")

\* the pure arguments and the call that end both place_limit_order
OrderTail(cfg, f, p) ==
  LET pool == get_pool(cfg, p.pool_key)
      base_coin == get_coin(cfg, pool.v.base_coin)
      quote_coin == get_coin(cfg, pool.v.quote_coin)
      f11 == Require(f, parse_u64(p.client_order_id).ok,
                     "ParseClientOrderId")
      f12 == OrderPures(f11, parse_u64(p.client_order_id).v,
               unwrap_or(p.order_type, "NoRestriction"),
               unwrap_or(p.self_matching_option, "SelfMatchingAllowed"),
               InputPriceOf(p.price, base_coin.v.scalar,
                            quote_coin.v.scalar),
               InputQuantityOf(p.quantity, base_coin.v.scalar),
               p.is_bid, unwrap_or(p.pay_with_deep, TRUE),
               unwrap_or(p.expiration, MAX_TIMESTAMP))
      package == ObjectID_from_hex_literal(cfg.deepbook_package_id)
      f13 == Require(f12, package.ok, "InvalidObjectID")
  IN Call(f13, "result", package.id, "pool", "place_limit_order",
          <<TypeTag_from_str(base_coin.v.type_).tag,
            TypeTag_from_str(quote_coin.v.type_).tag>>,
          OrderCallArgs)

\* the manager named by p is used through a trade cap
HasTradeCap(cfg, p) ==
  /\ get_balance_manager(cfg, p.manager_key).some
  /\ get_balance_manager(cfg, p.manager_key).v.trade_cap.some

\* ObjectID::from_hex_literal(address)? of the read that comes next: the
\* request is made of it, so it is evaluated before the read is awaited
ParsedBeforeRead(f, address) ==
  Require(f, ObjectID_from_hex_literal(address).ok, "InvalidObjectID")

\* DeepBookClient::place_limit_order between two of its .await: `at` names
\* the read the future is resumed at ("start" before the first one); it
\* runs until the next read is awaited
ClientOrderResume(cfg, ledgers, f, p, at) ==
  CASE at = "start" ->
         ParsedBeforeRead(ClientOrderLookups(cfg, f, p),
                          get_pool(cfg, p.pool_key).v.address)
    [] at = "pool" ->
         ParsedBeforeRead(
           ClientSharedArgument(ledgers, f, "pool",
                                get_pool(cfg, p.pool_key).v.address, TRUE),
           get_balance_manager(cfg, p.manager_key).v.address)
    [] at = "manager" ->
         IF HasTradeCap(cfg, p)
           THEN ParsedBeforeRead(
                  ClientSharedArgument(ledgers, f, "manager",
                    get_balance_manager(cfg, p.manager_key).v.address, TRUE),
                  get_balance_manager(cfg, p.manager_key).v.trade_cap.v)
         ELSE ClientOrderProof(cfg, ledgers,
                ClientSharedArgument(ledgers, f, "manager",
                  get_balance_manager(cfg, p.manager_key).v.address, TRUE),
                p)
    [] at = "trade_cap" -> ClientOrderProof(cfg, ledgers, f, p)
    [] at = "clock" ->
         OrderTail(cfg,
                   ClientSharedArgument(ledgers, f, "clock",
                                        SUI_CLOCK_OBJECT_ID, FALSE),
                   p)

\* the read after `at` in DeepBookClient::place_limit_order
ClientOrderNextRead(cfg, p, at) ==
  CASE at = "start" -> "pool"
    [] at = "pool" -> "manager"
    [] at = "manager" -> IF HasTradeCap(cfg, p) THEN "trade_cap" ELSE "clock"
    [] at = "trade_cap" -> "clock"
    [] at = "clock" -> "done"

\* the lookups and the type tags of DeepBookContract::place_limit_order
ContractOrderLookups(cfg, f, p) ==
  Require(Require(ClientOrderLookups(cfg, f, p),
    TypeTag_from_str(get_coin(cfg,
      get_pool(cfg, p.pool_key).v.base_coin).v.type_).ok, "TypeTagParse"),
    TypeTag_from_str(get_coin(cfg,
      get_pool(cfg, p.pool_key).v.quote_coin).v.type_).ok, "TypeTagParse")

\* DeepBookContract::place_limit_order between two of its .await: it runs
\* until fetch_object awaits the next read
ContractOrderResume(cfg, ledgers, f, p, at) ==
  CASE at = "start" ->
         ParsedBeforeRead(ContractOrderLookups(cfg, f, p),
                          get_pool(cfg, p.pool_key).v.address)
    [] at = "pool" ->
         ParsedBeforeRead(
           prepare_pool_argument(cfg, ledgers, f, "pool", p.pool_key),
           get_balance_manager(cfg, p.manager_key).v.address)
    [] at = "manager" ->
         prepare_balance_manager_argument(cfg, ledgers, f, "manager",
                                          p.manager_key)
    [] at = "clock" ->
         IF HasTradeCap(cfg, p)
           THEN ParsedBeforeRead(
                  prepare_sui_clock_argument(ledgers, f, "clock"),
                  get_balance_manager(cfg, p.manager_key).v.trade_cap.v)
         ELSE OrderTail(cfg,
                trade_proof_argument(cfg, ledgers,
                  prepare_sui_clock_argument(ledgers, f, "clock"),
                  get_balance_manager(cfg, p.manager_key)),
                p)
    [] at = "trade_cap" ->
         OrderTail(cfg,
                   trade_proof_argument(cfg, ledgers, f,
                     get_balance_manager(cfg, p.manager_key)),
                   p)

\* the read after `at` in DeepBookContract::place_limit_order
ContractOrderNextRead(cfg, p, at) ==
  CASE at = "start" -> "pool"
    [] at = "pool" -> "manager"
    [] at = "manager" -> "clock"
    [] at = "clock" -> IF HasTradeCap(cfg, p) THEN "trade_cap" ELSE "done"
    [] at = "trade_cap" -> "done"

OrderResume(op, cfg, ledgers, f, p, at) ==
  IF op = "DeepBookClient::place_limit_order"
    THEN ClientOrderResume(cfg, ledgers, f, p, at)
  ELSE ContractOrderResume(cfg, ledgers, f, p, at)

OrderNextRead(op, cfg, p, at) ==
  IF op = "DeepBookClient::place_limit_order"
    THEN ClientOrderNextRead(cfg, p, at)
  ELSE ContractOrderNextRead(cfg, p, at)

\* the whole operation, run without suspension
OrderAlone(op, cfg, ledgers, b, p) ==
  IF op = "DeepBookClient::place_limit_order"
    THEN DeepBookClient_place_limit_order(cfg, ledgers, b, p)
  ELSE DeepBookContract_place_limit_order(cfg, ledgers, b, p)

Tasks == {1, 2}

\* the orders the two compositions run
ConcurrentOrders ==
  {[op |-> "DeepBookClient::place_limit_order",
    args |-> PlainOrder("DEEP_SUI", "MANAGER_1", <<"4", "2">>)],
   [op |-> "DeepBookClient::place_limit_order",
    args |-> PlainOrder("DEEP_SUI", "MANAGER_2", <<"4", "2">>)],
   [op |-> "DeepBookContract::place_limit_order",
    args |-> PlainOrder("DEEP_SUI", "MANAGER_2", <<"4", "2">>)],
   [op |-> "DeepBookContract::place_limit_order",
    args |-> PlainOrder("NOPE", "MANAGER_1", <<"4", "2">>)]}

\* the ledgers the objects go through while the compositions run
ConcurrentLedgers ==
  {HealthyLedger,
   [HealthyLedger EXCEPT ![ObjId(ADDR_POOL)] = SharedObj(2, 4)],
   [HealthyLedger EXCEPT ![ObjId(ADDR_M2)] = OwnedObj(4)]}

IdleTask ==
  [op |-> "none", args |-> NoArgs, at |-> "idle", f |-> NewFrame(NewPtb),
   seen |-> <<>>, began |-> 0, ended |-> 0]

InitConcurrent ==
  /\ config = ModelConfig
  /\ ptb = [i \in Tasks |-> NewPtb]
  /\ last = [op |-> "concurrent", ledger |-> HealthyLedger,
             tasks |-> [i \in Tasks |-> IdleTask]]
  /\ nops = 0

\* task i, resumed at `at`, ran to its next read against the ledger of the
\* moment and left the frame g
Suspend(i, order, at, g) ==
  /\ ptb' = [ptb EXCEPT ![i] = g.ptb]
  /\ last' = [last EXCEPT !.tasks[i] =
       [op |-> order.op, args |-> order.args,
        at |-> IF Running(g) THEN OrderNextRead(order.op, config,
                                                order.args, at)
               ELSE "done",
        f |-> [g EXCEPT !.ptb = NewPtb],
        seen |-> [k \in 1..Len(g.reads) |->
                    IF k <= Len(last.tasks[i].seen)
                      THEN last.tasks[i].seen[k]
                    ELSE LedgerGet(last.ledger, g.reads[k])],
        began |-> IF at = "start" THEN nops + 1 ELSE last.tasks[i].began,
        ended |-> nops + 1]]
  /\ nops' = nops + 1
  /\ UNCHANGED config

\* the ledger of the moment answers the read that f is resumed at
Moment(ledger, f) == [k \in 1..(Len(f.reads) + 1) |-> ledger]

\* the caller starts an order on the buffer of task i
BeginOrder ==
  \E i \in Tasks, order \in ConcurrentOrders :
    /\ last.tasks[i].at = "idle"
    /\ Suspend(i, order, "start",
               OrderResume(order.op, config, <<>>,
                           NewFrame(BufferOf(ptb, i)), order.args, "start"))

\* the executor resumes the order of task i
ResumeOrder ==
  \E i \in Tasks :
    /\ last.tasks[i].at \notin {"idle", "done"}
    /\ Suspend(i, last.tasks[i], last.tasks[i].at,
               OrderResume(last.tasks[i].op, config,
                           Moment(last.ledger, last.tasks[i].f),
                           [last.tasks[i].f EXCEPT !.ptb = BufferOf(ptb, i)],
                           last.tasks[i].args, last.tasks[i].at))

\* the ledger moves on while the orders are suspended
LedgerChange ==
  /\ \E i \in Tasks : last.tasks[i].at \notin {"idle", "done"}
  /\ \E ledger \in ConcurrentLedgers :
       /\ ledger # last.ledger
       /\ last' = [last EXCEPT !.ledger = ledger]
  /\ UNCHANGED <<config, ptb, nops>>

NextConcurrent ==
  \/ BeginOrder
  \/ ResumeOrder
  \/ LedgerChange

SpecConcurrent == InitConcurrent /\ [][NextConcurrent]_vars

\* the ledgers that answer each read of a task as the task saw it answered
SeenLedgers(task) ==
  [k \in 1..Len(task.f.reads) |->
     [id \in {task.f.reads[k]} |-> task.seen[k]]]

\* ------------------------------------------------------------------------
\* The resolutions, on their own: a caller resolves object references, one
\* after the other, on one buffer, and places orders on it; the ledger may
\* answer each resolution differently.  `last.args` keeps, next to the
\* address and the flag, what the resolution before this one was and saw.

\* the number of resolutions and orders on the buffer
MaxResolutions == 2

ResolveAddresses == {ADDR_POOL, SUI_CLOCK_OBJECT_ID, ADDR_BAD}

\* what the ledger answers for the object resolved
ResolveResponses ==
  {RpcError, NotExists, SharedObj(1, 3), SharedObj(2, 4), OwnedObj(3)}

\* the healthy ledger, but for the pool and the clock
ResolveLedgers ==
  {[HealthyLedger EXCEPT ![ObjId(ADDR_POOL)] = r,
                         ![ObjId(SUI_CLOCK_OBJECT_ID)] = r] :
     r \in ResolveResponses}

ResolutionOps ==
  {"prepare_shared_object_argument", "prepare_imm_or_owned_object_argument",
   "DeepBookClient::place_limit_order/pool"}

\* what the latest resolution was, for the one that follows it
Earlier ==
  [op |-> last.op,
   object_id |-> IF last.op \in ResolutionOps THEN last.args.object_id
                 ELSE <<>>,
   out |-> last.out, value |-> last.value, reads |-> last.reads,
   responses |-> last.responses]

ResolveArgs(object_id, mutable) ==
  [object_id |-> object_id, mutable |-> mutable, earlier |-> Earlier] @@
  NoArgs

CanResolve ==
  nops < MaxResolutions /\ last.out \notin {"Await", "AwaitSim"}

ResolveShared ==
  /\ CanResolve
  /\ \E object_id \in ResolveAddresses, mutable \in BOOLEAN :
       LET args == ResolveArgs(object_id, mutable)
       IN Begin("prepare_shared_object_argument", args,
                SharedObjectArgument(<<>>, ptb, args))

ResolveImmOrOwned ==
  /\ CanResolve
  /\ \E object_id \in ResolveAddresses :
       LET args == ResolveArgs(object_id, FALSE)
       IN Begin("prepare_imm_or_owned_object_argument", args,
                ImmOrOwnedObjectArgument(<<>>, ptb, args))

\* the resolution DeepBookClient::place_limit_order makes inline, of its
\* pool
ClientResolveShared ==
  /\ CanResolve
  /\ \E object_id \in ResolveAddresses :
       LET args == ResolveArgs(object_id, TRUE)
       IN Begin("DeepBookClient::place_limit_order/pool", args,
                ClientPoolArgument(<<>>, ptb, args))

\* an order on the buffer the resolutions left
ResolveOrder ==
  /\ CanResolve
  /\ \E order \in ConcurrentOrders :
       Begin(order.op, order.args,
             OrderAlone(order.op, config, <<>>, ptb, order.args))

\* the ledger of the moment answers the read awaited
ResolveRead == \E ledger \in ResolveLedgers : Resume(ledger)

NextResolve ==
  \/ ResolveShared
  \/ ResolveImmOrOwned
  \/ ClientResolveShared
  \/ ResolveOrder
  \/ ResolveRead

SpecResolve == Init /\ [][NextResolve]_vars

\* ------------------------------------------------------------------------
\* The lookups of an order, on their own: orders are placed, one after the
\* other, on one buffer, under a configuration in which a pool lacks its
\* base coin and another lacks its quote coin.

\* the pools of the model, and one whose quote coin is not in the coin table
LookupPools ==
  [k \in DOMAIN ModelPools \cup {"NOQUOTE"} |->
     IF k = "NOQUOTE"
       THEN [address |-> ADDR_ORPHAN, base_coin |-> "DEEP",
             quote_coin |-> "GONE"]
     ELSE ModelPools[k]]

LookupPoolKeys == {"DEEP_SUI", "ORPHAN", "NOQUOTE", "NOPE"}

\* the healthy ledger, with the orphan pools on it, and one that answers no
\* read
LookupLedgers ==
  {[id \in DOMAIN HealthyLedger \cup {ObjId(ADDR_ORPHAN)} |-> r] :
     r \in {SharedObj(1, 3), RpcError}} \cup
  {[id \in {ObjId(ADDR_ORPHAN)} |-> SharedObj(1, 3)] @@ HealthyLedger}

InitLookups ==
  /\ config = DeepBookConfig_new("testnet", ADDR_CALLER, NoneV,
                                 ModelManagers, Some(ModelCoins),
                                 Some(LookupPools))
  /\ ptb = NewPtb
  /\ last = [op |-> "none", args |-> NoArgs, responses |-> <<>>,
             out |-> "-", err |-> "-", reads |-> <<>>, built |-> NewPtb,
             before |-> NewPtb, value |-> NoneV]
  /\ nops = 0

LookupOrder ==
  /\ CanCompose
  /\ \E pool_key \in LookupPoolKeys, manager_key \in ManagerKeys :
       LET args == PlainOrder(pool_key, manager_key, <<"4", "2">>)
       IN Begin("DeepBookClient::place_limit_order", args,
                DeepBookClient_place_limit_order(config, <<>>, ptb, args))

LookupContractOrder ==
  /\ CanCompose
  /\ \E pool_key \in LookupPoolKeys, manager_key \in ManagerKeys :
       LET args == PlainOrder(pool_key, manager_key, <<"4", "2">>)
       IN Begin("DeepBookContract::place_limit_order", args,
                DeepBookContract_place_limit_order(config, <<>>, ptb, args))

\* the ledger of the moment answers the read awaited
LookupRead == \E ledger \in LookupLedgers : Resume(ledger)

NextLookups ==
  \/ LookupOrder
  \/ LookupContractOrder
  \/ LookupRead

SpecLookups == InitLookups /\ [][NextLookups]_vars

\* ------------------------------------------------------------------------
\* The two place_limit_order, side by side: each order is given to
\* DeepBookContract on a copy of the caller's buffer, then to
\* DeepBookClient, which composes on the caller's buffer.  Every read of the
\* two is answered by one ledger, which `last.args.ledger` keeps;
\* `last.args.contract` keeps what DeepBookContract returned.

BothArgs(args, contract) == [contract |-> contract] @@ args

\* the latest order left every optional parameter out
LeftOptionalsOut ==
  /\ ~last.args.expiration.some
  /\ ~last.args.order_type.some
  /\ ~last.args.self_matching_option.some
  /\ ~last.args.pay_with_deep.some

\* DeepBookContract is called with `args` on a copy of the caller's buffer
BeginCopy(args) ==
  /\ last' = Recorded("DeepBookContract::place_limit_order/copy", args,
                      <<>>, ptb,
                      DeepBookContract_place_limit_order(config, <<>>, ptb,
                                                         args))
  /\ Composed(last')
  /\ nops' = nops + 1

\* one order, with one thing wrong at most, given to both
EquivOrder ==
  /\ CanCompose
  /\ last.op # "DeepBookContract::place_limit_order/copy"
  /\ LeftOptionalsOut
  /\ \E pool_key \in PoolKeys, manager_key \in ManagerKeys,
        client_order_id \in ClientOrderIds, ledger \in ModelLedgers :
       /\ OneFault(/\ pool_key = "DEEP_SUI"
                   /\ manager_key = "MANAGER_2"
                   /\ client_order_id = <<"4", "2">>, ledger)
       /\ BeginCopy([ledger |-> ledger] @@
                    PlainOrder(pool_key, manager_key, client_order_id))

\* one order with any optional parameters, on an empty buffer, given to both
EquivModelOrder ==
  /\ nops = 0
  /\ \E args \in ModelOrders :
       BeginCopy([ledger |-> HealthyLedger] @@ args)

\* DeepBookContract has returned: DeepBookClient is called with the same
\* arguments on the caller's buffer
EquivClient ==
  /\ last.op = "DeepBookContract::place_limit_order/copy"
  /\ last.out \in {"Ok", "Err"}
  /\ last' = Recorded("place_limit_order/both",
                      BothArgs(last.args,
                               RetV(last.built, last.out, last.err,
                                    last.reads, last.value)),
                      <<>>, ptb,
                      DeepBookClient_place_limit_order(config, <<>>, ptb,
                                                       last.args))
  /\ Composed(last')
  /\ UNCHANGED nops

\* the ledger answers the read awaited
EquivRead == Resume(last.args.ledger)

NextEquiv ==
  \/ EquivOrder
  \/ EquivModelOrder
  \/ EquivClient
  \/ EquivRead

SpecEquiv == Init /\ [][NextEquiv]_vars

\* ------------------------------------------------------------------------
\* Properties

\* C1: whenever place_limit_order succeeds it has appended exactly one
\* pool::place_limit_order invocation, the last command of the buffer, with
\* type parameters [base coin type, quote coin type] of the pool and the 12
\* arguments pool, balance manager, trade proof, client order id, order
\* type, self-matching option, input price, input quantity, is_bid,
\* pay_with_deep, expiration, clock, in this order.
C1_OrderCallArguments ==
  (IsOrder /\ last.out = "Ok") =>
    /\ Cardinality({i \in 1..Len(NewCommands) :
                      IsCall(NewCommands[i], "pool", "place_limit_order")}) = 1
    /\ Len(NewCommands) > 0
    /\ IsCall(LastCommand, "pool", "place_limit_order")
    /\ LastCommand.package = ObjId(config.deepbook_package_id)
    /\ LastCommand.targs =
         <<CoinTypeTag(config.pools[last.args.pool_key].base_coin),
           CoinTypeTag(config.pools[last.args.pool_key].quote_coin)>>
    /\ Len(LastCommand.args) = 12
    /\ IsObjectArg(last.built, LastCommand.args[1],
                   ObjId(config.pools[last.args.pool_key].address))
    /\ IsObjectArg(last.built, LastCommand.args[2],
         ObjId(config.balance_managers[last.args.manager_key].address))
    /\ IsProofArg(last.built, LastCommand.args[3])
    /\ IsPureArg(last.built, LastCommand.args[4],
                 parse_u64(last.args.client_order_id).v)
    /\ IsPureArg(last.built, LastCommand.args[5],
         <<OrderTypeCode[OrElse(last.args.order_type, "NoRestriction")]>>)
    /\ IsPureArg(last.built, LastCommand.args[6],
         <<SelfMatchingCode[OrElse(last.args.self_matching_option,
                                   "SelfMatchingAllowed")]>>)
    /\ IsPureArg(last.built, LastCommand.args[7],
         InputPriceOf(last.args.price,
           config.coins[config.pools[last.args.pool_key].base_coin].scalar,
           config.coins[config.pools[last.args.pool_key].quote_coin].scalar))
    /\ IsPureArg(last.built, LastCommand.args[8],
         InputQuantityOf(last.args.quantity,
           config.coins[config.pools[last.args.pool_key].base_coin].scalar))
    /\ IsPureArg(last.built, LastCommand.args[9],
                 <<IF last.args.is_bid THEN 1 ELSE 0>>)
    /\ IsPureArg(last.built, LastCommand.args[10],
                 <<IF OrElse(last.args.pay_with_deep, TRUE) THEN 1 ELSE 0>>)
    /\ IsPureArg(last.built, LastCommand.args[11],
                 OrElse(last.args.expiration, [i \in 1..8 |-> 255]))
    /\ IsObjectArg(last.built, LastCommand.args[12],
                   ObjId(SUI_CLOCK_OBJECT_ID))

\* C1: an order succeeded whose arguments all differ where they can
C1_Witness ==
  /\ IsOrder /\ last.out = "Ok"
  /\ Len(LastCommand.args) = 12
  /\ last.args.order_type = Some("PostOnly")
  /\ last.args.self_matching_option = Some("CancelTaker")
  /\ ~last.args.is_bid
  /\ last.args.pay_with_deep = Some(TRUE)
  /\ last.args.expiration = Some(U64(1700000000))

\* C2: in place_limit_order an omitted optional parameter takes its default
\* (expiration u64::MAX, order type NoRestriction = 0, self-matching option
\* SelfMatchingAllowed = 0, pay_with_deep true) and a supplied one is what
\* the invocation is given.
C2_OptionalParameters ==
  (IsOrder /\ last.out = "Ok") =>
    /\ IsPureArg(last.built, LastCommand.args[5],
         IF last.args.order_type.some
           THEN <<OrderTypeCode[last.args.order_type.v]>> ELSE <<0>>)
    /\ IsPureArg(last.built, LastCommand.args[6],
         IF last.args.self_matching_option.some
           THEN <<SelfMatchingCode[last.args.self_matching_option.v]>>
           ELSE <<0>>)
    /\ IsPureArg(last.built, LastCommand.args[10],
         IF last.args.pay_with_deep.some /\ ~last.args.pay_with_deep.v
           THEN <<0>> ELSE <<1>>)
    /\ IsPureArg(last.built, LastCommand.args[11],
         IF last.args.expiration.some THEN last.args.expiration.v
         ELSE <<255, 255, 255, 255, 255, 255, 255, 255>>)

\* C2: an order succeeded with every optional parameter omitted
C2_Witness ==
  /\ IsOrder /\ last.out = "Ok"
  /\ ~last.args.expiration.some
  /\ ~last.args.order_type.some
  /\ ~last.args.self_matching_option.some
  /\ ~last.args.pay_with_deep.some
  /\ IsCall(LastCommand, "pool", "place_limit_order")

\* the proof invocations the latest operation appended
ProofCalls == {i \in 1..Len(NewCommands) : IsProofCall(NewCommands[i])}

\* the balance manager the latest operation names, if the registry has it
ManagerKnown == last.args.manager_key \in DOMAIN config.balance_managers
LastManager == config.balance_managers[last.args.manager_key]

\* C3: the proof path of place_limit_order follows the trade cap of the
\* balance manager: with a trade cap the only proof invocation emitted is
\* generate_proof_as_trader on the manager and the trade cap, without one it
\* is generate_proof_as_owner on the manager alone; never the other path,
\* never both, and a successful order has emitted exactly one.
C3_ProofPath ==
  IsOrder =>
    /\ Cardinality(ProofCalls) <= 1
    /\ last.out = "Ok" => Cardinality(ProofCalls) = 1
    /\ ~ManagerKnown => ProofCalls = {}
    /\ \A i \in ProofCalls :
         IF LastManager.trade_cap.some
           THEN /\ NewCommands[i].function = "generate_proof_as_trader"
                /\ Len(NewCommands[i].args) = 2
                /\ IsObjectArg(last.built, NewCommands[i].args[1],
                               ObjId(LastManager.address))
                /\ IsObjectArg(last.built, NewCommands[i].args[2],
                               ObjId(LastManager.trade_cap.v))
           ELSE /\ NewCommands[i].function = "generate_proof_as_owner"
                /\ Len(NewCommands[i].args) = 1
                /\ IsObjectArg(last.built, NewCommands[i].args[1],
                               ObjId(LastManager.address))

\* C3: an order for a manager with a trade cap succeeded on a buffer that
\* already held an order
C3_Witness ==
  /\ IsOrder /\ last.out = "Ok"
  /\ ManagerKnown /\ LastManager.trade_cap.some
  /\ ProofCalls # {}
  /\ Len(last.before.commands) > 0

\* the objects the operations require to be shared: pools, balance
\* managers and the clock
MustBeSharedIds ==
  {ObjId(config.pools[k].address) : k \in DOMAIN config.pools} \cup
  {ObjId(config.balance_managers[k].address) :
     k \in DOMAIN config.balance_managers} \cup
  {ObjId(SUI_CLOCK_OBJECT_ID)}

\* the i-th read of the operation recorded in l fetched an object that must
\* be shared and is not: it is owned, immutable, or has no owner at all
NotSharedIn(l, i) ==
  /\ l.reads[i] \in MustBeSharedIds
  /\ l.responses[i].kind # "rpc_error"
  /\ l.responses[i].owner # "Shared"

NotSharedRead(i) == NotSharedIn(last, i)

\* the read that the operation was suspended at has just been answered
\* with an object that must be shared and is not
NotSharedAnswer ==
  /\ last.out = "Await"
  /\ Len(last'.reads) = Len(last.reads) + 1
  /\ NotSharedIn(last', Len(last.reads) + 1)

\* C4: when the object fetched for a pool, a balance manager or the clock is
\* not shared, the resolution fails with an ownership error, the operation
\* reads nothing more, and the resolution leaves no input for that object in
\* the buffer that was not there before it: the buffer is as it was when
\* the read was made.
C4_NotSharedFails ==
  /\ [](\A i \in 1..Len(last.reads) :
         NotSharedRead(i) =>
           /\ i = Len(last.reads)
           /\ last.out = "Err"
           /\ last.err = IF last.responses[i].owner = "None" THEN "NoOwner"
                         ELSE "MustBeShared")
  /\ [][NotSharedAnswer =>
         /\ last'.built = last.built
         /\ OwnBuffer(last.op) \/ ptb' = ptb]_vars

\* C4: an order found its balance manager owned by an address, after the
\* pool was resolved
C4_Witness ==
  /\ IsOrder
  /\ Len(last.reads) = 2
  /\ NotSharedRead(2)
  /\ last.responses[2].owner = "AddressOwner"
  /\ last.err = "MustBeShared"

\* the read of the trade cap by the latest order, if it made one
TradeCapReads ==
  {i \in 1..Len(last.reads) :
     /\ IsOrder /\ ManagerKnown /\ LastManager.trade_cap.some
     /\ last.reads[i] = ObjId(LastManager.trade_cap.v)}

\* C5: a trade cap must be exclusively owned: when the object fetched for
\* the trade cap of the balance manager is not owned by an address, the
\* order fails with an ownership error and no owned-object input is built
\* from it.
C5_TradeCapMustBeOwned ==
  \A i \in TradeCapReads :
    (/\ HasReturned
     /\ last.responses[i].kind = "object"
     /\ last.responses[i].owner # "AddressOwner")
      => /\ last.out = "Err"
         /\ last.err \in {"MustBeOwned", "MustBeShared", "NoOwner"}
         /\ \A j \in 1..Len(last.built.inputs) :
              last.built.inputs[j].id # last.reads[i]

\* C6: a client_order_id that is not an unsigned 64-bit integer makes
\* place_limit_order fail, and fail before any remote read.
C6_ClientOrderIdBeforeReads ==
  (IsOrder /\ HasReturned /\ ~parse_u64(last.args.client_order_id).ok) =>
    /\ last.out = "Err"
    /\ last.reads = <<>>

\* the operations that take a pool key, a balance-manager key, a coin key
TakesPoolKey == OrderOps \cup {"account_open_orders"}
TakesManagerKey ==
  OrderOps \cup {"account_open_orders", "deposit_into_manager",
                 "check_manager_balance", "mint_and_transfer_trade_cap"}
TakesCoinKey == {"deposit_into_manager", "check_manager_balance"}

\* the latest operation was given a key the registry does not have
UnknownKey ==
  \/ /\ last.op \in TakesPoolKey
     /\ \/ last.args.pool_key \notin DOMAIN config.pools
        \/ config.pools[last.args.pool_key].base_coin
             \notin DOMAIN config.coins
        \/ config.pools[last.args.pool_key].quote_coin
             \notin DOMAIN config.coins
  \/ last.op \in TakesManagerKey /\ ~ManagerKnown
  \/ /\ last.op \in TakesCoinKey
     /\ last.args.coin_key \notin DOMAIN config.coins

\* C7: an unknown pool key, balance-manager key or coin key makes every
\* composition operation return an error: it neither panics nor succeeds.
C7_UnknownKeyIsError ==
  (UnknownKey /\ HasReturned) => last.out = "Err"

\* s is a prefix of t
IsPrefix(s, t) == Len(s) <= Len(t) /\ SubSeq(t, 1, Len(s)) = s

\* C8: composition is purely additive: whatever an operation does, succeed
\* or fail, the inputs and the commands the buffer held before it are a
\* prefix of those it holds afterwards.
C8_PurelyAdditive ==
  [][/\ IsPrefix(ptb.inputs, ptb'.inputs)
     /\ IsPrefix(ptb.commands, ptb'.commands)]_vars

\* y is the input x, or x with the mutable flag of a shared object raised
SameOrRaised(x, y) ==
  \/ y = x
  \/ /\ x.okind = "SharedObject"
     /\ ~x.mutable
     /\ y = [x EXCEPT !.mutable = TRUE]

\* C8, amended: whatever an operation does, succeed or fail, every input
\* the buffer held before it is afterwards at the same position, unchanged
\* except that the mutable flag of a shared-object input may have been
\* raised from false to true, and the commands it held before are a prefix
\* of those it holds afterwards.
C8_AdditiveUpToMutability ==
  [][/\ Len(ptb.inputs) <= Len(ptb'.inputs)
     /\ \A i \in 1..Len(ptb.inputs) :
          SameOrRaised(ptb.inputs[i], ptb'.inputs[i])
     /\ IsPrefix(ptb.commands, ptb'.commands)]_vars

\* C8: an operation on a buffer that held an order raised the mutable flag
\* of an input that was there, and appended to the buffer
C8_Witness ==
  /\ nops = 2
  /\ Len(last.built.inputs) > Len(last.before.inputs)
  /\ Len(last.built.commands) > Len(last.before.commands)
  /\ \E i \in 1..Len(last.before.inputs) :
       /\ ~last.before.inputs[i].mutable
       /\ last.built.inputs[i].mutable

\* the caller's buffer holds an input for the object id
HasObjectInput(id) ==
  \E j \in 1..Len(ptb.inputs) :
    ptb.inputs[j].k = "Object" /\ ptb.inputs[j].id = id

\* C9: a failed place_limit_order does not roll back: the objects it
\* resolved before the failure (every read but the last, and the last too
\* when the failure is the client order id) are inputs of the caller's
\* buffer when the error is returned, and nothing that was there is gone.
C9_NoRollback ==
  (IsOrder /\ last.out = "Err") =>
    /\ \A i \in 1..(Len(last.reads) - 1) : HasObjectInput(last.reads[i])
    /\ last.err = "ParseClientOrderId" =>
         \A i \in 1..Len(last.reads) : HasObjectInput(last.reads[i])
    /\ Len(ptb.inputs) >= Len(last.before.inputs)
    /\ Len(ptb.commands) >= Len(last.before.commands)

\* C9: an order resolved and appended its pool, then failed on its balance
\* manager
C9_Witness ==
  /\ IsOrder /\ last.out = "Err"
  /\ Len(last.reads) = 2
  /\ last.err \in {"MustBeShared", "NoOwner", "FetchFailed"}
  /\ Len(ptb.inputs) = Len(last.before.inputs) + 1
  /\ HasObjectInput(last.reads[1])

\* the final call of an operation
FinalCalls ==
  "DeepBookClient::place_limit_order" :> <<"pool", "place_limit_order">> @@
  "DeepBookContract::place_limit_order" :> <<"pool", "place_limit_order">> @@
  "account_open_orders" :> <<"pool", "account_open_orders">> @@
  "deposit_into_manager" :> <<"balance_manager", "deposit">> @@
  "mint_and_transfer_trade_cap" :> <<"transfer", "public_transfer">>

\* where, among the commands the latest operation appended, its final call is
FinalCallsAppended ==
  {i \in 1..Len(NewCommands) :
     IsCall(NewCommands[i], FinalCalls[last.op][1], FinalCalls[last.op][2])}

\* arg refers to an input of b, or to the result of a command before the
\* n-th
IsAppended(b, arg, n) ==
  \/ arg.a = "Input" /\ arg.i < Len(b.inputs)
  \/ arg.a = "Result" /\ arg.i < n - 1

\* C10: no partial success: an operation that returns success has appended
\* its final call, once and last, after every argument the call uses; an
\* operation that does not return success has not appended its final call.
C10_NoPartialSuccess ==
  last.op \in DOMAIN FinalCalls =>
    IF last.out = "Ok"
      THEN /\ FinalCallsAppended = {Len(NewCommands)}
           /\ Len(NewCommands) > 0
           /\ \A k \in 1..Len(LastCommand.args) :
                IsAppended(last.built, LastCommand.args[k],
                           Len(last.built.commands))
      ELSE FinalCallsAppended = {}

\* C10: an operation failed after it had appended a command
C10_Witness ==
  /\ last.op \in DOMAIN FinalCalls
  /\ last.out = "Err"
  /\ Len(NewCommands) > 0
  /\ FinalCallsAppended = {}

\* ------------------------------------------------------------------------
\* Conversions

BaseScalar ==
  config.coins[config.pools[last.args.pool_key].base_coin].scalar
QuoteScalar ==
  config.coins[config.pools[last.args.pool_key].quote_coin].scalar

\* the integer nearest to m * 2^e, halves away from zero
NearestInteger(m, e) ==
  IF m = <<>> THEN <<>>
  ELSE IF e >= 0 THEN BigShl(m, e)
  ELSE BigMulAdd(BigShr(m, 0 - e), 1, BigBit(m, (0 - e) - 1))

\* the f64 a is not negative and its nearest integer is below 2^64
Representable(a) ==
  /\ a.kind = "finite"
  /\ ~a.neg
  /\ BigBitLen(NearestInteger(a.m, a.e)) <= 64

\* the nearest integer of a representable f64, as a u64
Units(a) == PadU64(NearestInteger(a.m, a.e))

\* price * FLOAT_SCALAR * quote scalar / base scalar, evaluated in f64 from
\* left to right: the two products, then the division
PriceFormula(price, base_scalar, quote_scalar) ==
  f64_div(f64_mul(f64_mul(price, u64_as_f64(1000000000)),
                  u64_as_f64(quote_scalar)),
          u64_as_f64(base_scalar))

\* 20,000,000,000
TwentyBillion == PadU64(BigMul(BigOfNat(20), BigOfNat(1000000000)))

\* the amount that the latest deposit splits off the gas coin
DepositAmountArg == NewCommands[1].args[2]

\* C11: the input price that a successful place_limit_order passes is the
\* integer nearest to price * FLOAT_SCALAR * quote.scalar / base.scalar, the
\* product formed before the division, whenever that integer fits 64 bits;
\* price 0.02 with base scalar 1,000,000 and quote scalar 1,000,000,000
\* gives 20,000,000,000.
C11_InputPriceFormula ==
  (/\ IsOrder
   /\ last.out = "Ok"
   /\ Representable(PriceFormula(last.args.price, BaseScalar, QuoteScalar)))
  =>
    /\ IsPureArg(last.built, LastCommand.args[7],
         Units(PriceFormula(last.args.price, BaseScalar, QuoteScalar)))
    /\ (/\ last.args.price = F64_0_02
        /\ BaseScalar = 1000000
        /\ QuoteScalar = 1000000000)
       => IsPureArg(last.built, LastCommand.args[7], TwentyBillion)

\* C11: an order of price 0.02 succeeded on a pool of base scalar 1,000,000
\* and quote scalar 1,000,000,000
C11_Witness ==
  /\ IsOrder
  /\ last.out = "Ok"
  /\ last.args.price = F64_0_02
  /\ BaseScalar = 1000000
  /\ QuoteScalar = 1000000000
  /\ IsPureArg(last.built, LastCommand.args[7], TwentyBillion)

\* C12: the quantity of a successful order and the amount of a successful
\* deposit are passed as amount * scalar rounded to the nearest integer,
\* whenever that integer fits 64 bits.
C12_ToUnitsRoundsToNearest ==
  /\ (/\ IsOrder
      /\ last.out = "Ok"
      /\ Representable(f64_mul(last.args.quantity, u64_as_f64(BaseScalar))))
     => IsPureArg(last.built, LastCommand.args[8],
          Units(f64_mul(last.args.quantity, u64_as_f64(BaseScalar))))
  /\ (/\ last.op = "deposit_into_manager"
      /\ last.out = "Ok"
      /\ Representable(f64_mul(last.args.amount,
           u64_as_f64(config.coins[last.args.coin_key].scalar))))
     => IsPureArg(last.built, DepositAmountArg,
          Units(f64_mul(last.args.amount,
            u64_as_f64(config.coins[last.args.coin_key].scalar))))

\* C13: an order whose scaled price or scaled quantity, or a deposit whose
\* scaled amount, does not fit the unsigned 64-bit target fails with an
\* error.
C13_OverflowIsAnError ==
  /\ (/\ IsOrder
      /\ HasReturned
      /\ \/ ~Representable(PriceFormula(last.args.price, BaseScalar,
                                        QuoteScalar))
         \/ ~Representable(f64_mul(last.args.quantity,
                                   u64_as_f64(BaseScalar))))
     => last.out = "Err"
  /\ (/\ last.op = "deposit_into_manager"
      /\ HasReturned
      /\ ~Representable(f64_mul(last.args.amount,
            u64_as_f64(config.coins[last.args.coin_key].scalar))))
     => last.out = "Err"

\* C14: SUI has scalar 1,000,000,000 on the test network, and a deposit of
\* 0.1 of a coin SUI of that scalar splits off exactly 100,000,000 units.
C14_TenthOfSui ==
  /\ TESTNET_COINS["SUI"].scalar = 1000000000
  /\ (/\ last.op = "deposit_into_manager"
      /\ HasReturned
      /\ last.args.coin_key = "SUI"
      /\ config.coins["SUI"].scalar = 1000000000
      /\ last.args.amount = F64_0_1)
     => /\ last.out = "Ok"
        /\ IsPureArg(last.built, DepositAmountArg, U64(100000000))

\* C14: 0.1 SUI was deposited with SUI at scalar 1,000,000,000
C14_Witness ==
  /\ last.op = "deposit_into_manager"
  /\ last.out = "Ok"
  /\ last.args.coin_key = "SUI"
  /\ config.coins["SUI"].scalar = 1000000000
  /\ last.args.amount = F64_0_1
  /\ NewCommands[1].c = "SplitCoins"
  /\ IsPureArg(last.built, DepositAmountArg, U64(100000000))

\* the scalar of the coin whose balance the latest operation reads
BalanceScalar == config.coins[last.args.coin_key].scalar

\* the balance was read back right after a successful order whose quantity
\* converts without overflow, and the reading has returned
ReadBackAfterOrder ==
  /\ last.op = "check_manager_balance"
  /\ HasReturned
  /\ "order" \in DOMAIN last.args
  /\ Representable(f64_mul(last.args.order.quantity,
                           u64_as_f64(BalanceScalar)))

\* the decimal amount is a whole number of integer units of a coin of the
\* scalar: it is the f64 of k / scalar for the integer k nearest to
\* amount * scalar (computed exactly)
WholeUnits(amount, scalar) ==
  f64_div(F64Round(FALSE,
            NearestInteger(BigMul(amount.m, BigOfNat(scalar)), amount.e),
            0, FALSE),
          u64_as_f64(scalar)) = amount

\* C15: the quantity A of an order, converted to integer units and read
\* back as a balance (divided by the scalar, rendered to nine fractional
\* digits), is A rounded to nine fractional digits.
C15_RoundTrip ==
  ReadBackAfterOrder =>
    /\ last.out = "Ok"
    /\ last.value.v.balance = f64_format_9_parse(last.args.order.quantity)

\* the decimal amount is fewer than 2^51 integer units of a coin of the
\* scalar: up to there the f64 values are at most a quarter apart, and the
\* f64 product of a whole number of units by the scalar rounds to that
\* number
BelowHalfSteps(amount, scalar) ==
  BigBitLen(NearestInteger(BigMul(amount.m, BigOfNat(scalar)), amount.e))
    <= 51

\* C15: the same for every quantity A that is a whole number of integer
\* units of the coin, fewer than 2^51 of them.
C15_RoundTripOfWholeUnits ==
  (/\ ReadBackAfterOrder
   /\ WholeUnits(last.args.order.quantity, BalanceScalar)
   /\ BelowHalfSteps(last.args.order.quantity, BalanceScalar))
  =>
    /\ last.out = "Ok"
    /\ last.value.v.balance = f64_format_9_parse(last.args.order.quantity)

\* C15: 1.9999999 of a coin of scalar 100,000,000 was ordered and read back
C15_Witness ==
  /\ last.op = "check_manager_balance"
  /\ last.out = "Ok"
  /\ nops = 2
  /\ config.coins[last.args.coin_key].scalar = 100000000
  /\ last.value.v.balance = F64_1_9999999

\* ------------------------------------------------------------------------
\* Configuration

\* the package coordinates of the configuration are those of the network
\* that env names
PackageIdsFollowEnv ==
  LET ids == IF last.args.env = "mainnet" THEN MAINNET_PACKAGE_IDS
                                          ELSE TESTNET_PACKAGE_IDS
  IN /\ config.deepbook_package_id = ids.deepbook_package_id
     /\ config.registry_id = ids.registry_id
     /\ config.deep_treasury_id = ids.deep_treasury_id

\* C16: a configuration constructed without table overrides has the coin
\* table, the pool table and the package coordinates of the main network
\* when env is "mainnet", and those of the test network for every other
\* env.
C16_DefaultsFollowEnv ==
  (~last.args.coins.some /\ ~last.args.pools.some) =>
    /\ PackageIdsFollowEnv
    /\ IF last.args.env = "mainnet"
         THEN config.coins = MAINNET_COINS /\ config.pools = MAINNET_POOLS
         ELSE config.coins = TESTNET_COINS /\ config.pools = TESTNET_POOLS

\* C16: a configuration was constructed for the unknown env "foo", without
\* overrides, and has the tables of the test network, which are not those
\* of the main network
C16_Witness ==
  /\ last.op = "DeepBookConfig::new"
  /\ last.args.env = "foo"
  /\ ~last.args.coins.some /\ ~last.args.pools.some
  /\ config.coins = TESTNET_COINS
  /\ config.pools = TESTNET_POOLS
  /\ TESTNET_COINS # MAINNET_COINS
  /\ TESTNET_POOLS # MAINNET_POOLS
  /\ TESTNET_PACKAGE_IDS # MAINNET_PACKAGE_IDS

\* C17: a coin table or a pool table given to the constructor is the
\* configuration's table, with no default entry added; the address and the
\* admin cap are stored as given; the package coordinates follow env.
C17_OverridesReplaceDefaults ==
  /\ last.args.coins.some => config.coins = last.args.coins.v
  /\ last.args.pools.some => config.pools = last.args.pools.v
  /\ config.address = last.args.address
  /\ config.admin_cap = last.args.admin_cap
  /\ PackageIdsFollowEnv

\* C17: a configuration was constructed for the main network with both
\* tables overridden by tables that lack the default entries
C17_Witness ==
  /\ last.op = "DeepBookConfig::new"
  /\ last.args.env = "mainnet"
  /\ last.args.coins = Some(CustomCoins)
  /\ last.args.pools = Some(CustomPools)
  /\ last.args.admin_cap.some
  /\ DOMAIN config.coins = {"XYZ"}
  /\ DOMAIN config.pools = {"XYZ_SUI"}
  /\ "SUI" \in DOMAIN MAINNET_COINS

\* C18: get_coin and get_pool answer the stored descriptor for a key of the
\* active table and nothing for any other key, and the configuration is
\* still the one that was constructed.
C18_LookupHitOrMiss ==
  /\ last.op = "get_coin" =>
       last.value = IF last.args.key \in DOMAIN config.coins
                      THEN Some(config.coins[last.args.key]) ELSE NoneV
  /\ last.op = "get_pool" =>
       last.value = IF last.args.key \in DOMAIN config.pools
                      THEN Some(config.pools[last.args.key]) ELSE NoneV
  /\ last.op \in {"get_coin", "get_pool"} =>
       config = DeepBookConfig_new(last.args.env, last.args.address,
                  last.args.admin_cap, ModelManagers, last.args.coins,
                  last.args.pools)

\* C18: a coin was looked up by a key that the active table does not have
C18_Witness ==
  /\ last.op = "get_coin"
  /\ last.args.key = "NOPE"
  /\ last.args.key \notin DOMAIN config.coins
  /\ ~last.value.some

\* C19: in every configuration, the base coin and the quote coin of each
\* pool of the pool table are resolved by get_coin.
C19_PoolCoinsResolve ==
  \A k \in DOMAIN config.pools :
    /\ get_coin(config, config.pools[k].base_coin).some
    /\ get_coin(config, config.pools[k].quote_coin).some

\* ------------------------------------------------------------------------
\* Simulation responses

\* the latest operation is a read-only simulation that came to its
\* simulation and was answered by it
Simulated ==
  /\ last.op \in {"check_manager_balance",
                  "DeepBookClient::account_open_orders"}
  /\ HasReturned
  /\ "response" \in DOMAIN last.args
  /\ last.args.response.kind = "ok"

\* C20: in check_manager_balance and account_open_orders, a response
\* without results, one without a first result and one whose first result
\* has no return value fail each with the error named after it (the errors
\* "Missing results", "Missing first result", "Missing return value").
C20_MissingPartsAreNamed ==
  Simulated =>
    /\ ~last.args.response.results.some =>
         last.out = "Err" /\ last.err = "MissingResults"
    /\ (/\ last.args.response.results.some
        /\ Len(last.args.response.results.v) = 0) =>
         last.out = "Err" /\ last.err = "MissingFirstResult"
    /\ (/\ last.args.response.results.some
        /\ Len(last.args.response.results.v) > 0
        /\ Len(last.args.response.results.v[1].return_values) = 0) =>
         last.out = "Err" /\ last.err = "MissingReturnValue"

\* ------------------------------------------------------------------------
\* Concurrency

\* what the order of task i returned, with the buffer it composed on
Returned(i) == Done([last.tasks[i].f EXCEPT !.ptb = ptb[i]])

\* the same order run alone, on an empty buffer, against the answers the
\* task saw
RunAlone(i) ==
  OrderAlone(last.tasks[i].op, config, SeenLedgers(last.tasks[i]), NewPtb,
             last.tasks[i].args)

\* C21: two compositions driven concurrently on separate buffers do not
\* interfere: however their steps interleave at the remote reads, each
\* buffer ends with the contents it has when its composition runs alone
\* against the same remote responses, with the same outcome, and the shared
\* configuration is unchanged.
C21_NoInterference ==
  /\ config = ModelConfig
  /\ \A i \in Tasks :
       last.tasks[i].at = "done" => Returned(i) = RunAlone(i)

\* C21: two orders that succeeded were suspended inside one another, and
\* the pool changed between their reads of it
C21_Witness ==
  /\ \A i \in Tasks : last.tasks[i].at = "done" /\ Returned(i).out = "Ok"
  /\ last.tasks[1].began < last.tasks[2].began
  /\ last.tasks[2].began < last.tasks[1].ended
  /\ last.tasks[1].ended < last.tasks[2].ended
  /\ last.tasks[1].seen[1] # last.tasks[2].seen[1]
  /\ Len(ptb[1].commands) = 2 /\ Len(ptb[2].commands) = 2

\* ------------------------------------------------------------------------
\* Resolutions

IsResolution == last.op \in ResolutionOps

\* the address the latest resolution was given is an object id
AddressParses == ObjectID_from_hex_literal(last.args.object_id).ok

\* the resolution before the latest one was of the same address
ResolvedBefore ==
  /\ last.args.earlier.op \in ResolutionOps
  /\ last.args.earlier.object_id = last.args.object_id

\* C22: each resolution of an object reference makes exactly one remote
\* read, of that object, whether the read succeeds or fails and whether or
\* not the same address was resolved before (no retry, no cache); a
\* successful place_limit_order has therefore made 3 remote reads when the
\* manager has no trade cap and 4 when it has one.
C22_OneReadPerResolution ==
  /\ (IsResolution /\ AddressParses) =>
       IF HasReturned THEN last.reads = <<ObjId(last.args.object_id)>>
       ELSE last.reads = <<>>
  /\ (IsOrder /\ last.out = "Ok") =>
       Len(last.reads) = IF LastManager.trade_cap.some THEN 4 ELSE 3

\* C22: an address resolved with success is resolved again, and read again
C22_Witness ==
  /\ IsResolution /\ AddressParses /\ ResolvedBefore
  /\ last.args.earlier.out = "Ok"
  /\ last.out = "Ok"
  /\ Len(last.reads) = 1
  /\ Len(last.built.inputs) = 1

\* C23: resolving a reference whose address is malformed fails with a parse
\* error before any remote read is attempted for it, and appends nothing to
\* the buffer.
C23_MalformedAddress ==
  (IsResolution /\ ~AddressParses) =>
    /\ last.out = "Err"
    /\ last.err = "InvalidObjectID"
    /\ last.reads = <<>>
    /\ last.built = last.before
    /\ ptb = last.before

\* C23: a malformed address was given to the resolver on a buffer that held
\* an object
C23_Witness ==
  /\ IsResolution /\ ~AddressParses
  /\ last.op = "prepare_shared_object_argument"
  /\ last.err = "InvalidObjectID"
  /\ Len(last.before.inputs) = 1

SharedResolutionOps ==
  {"prepare_shared_object_argument", "DeepBookClient::place_limit_order/pool"}

\* where the buffer held an input for the object before the resolution
HeldBefore ==
  {j \in 1..Len(last.before.inputs) :
     /\ last.before.inputs[j].k = "Object"
     /\ last.before.inputs[j].id = ObjId(last.args.object_id)}

\* the input the argument returned by the latest resolution refers to
ResolvedInput == last.built.inputs[last.value.v.i + 1]

\* the resolution before the latest one was of the same address, with
\* success, and was answered another version
VersionChanged ==
  /\ ResolvedBefore
  /\ last.args.earlier.op \in SharedResolutionOps
  /\ last.args.earlier.out = "Ok"
  /\ last.args.earlier.responses[1].isv # last.responses[1].isv

\* C24: a successful shared-object resolution appends one shared-object
\* argument carrying the requested address, the requested mutability flag
\* and the version returned by that resolution's own remote read; a
\* version seen by an earlier resolution is never reused, so two successful
\* resolutions of the same address with a ledger change in between carry
\* different versions.
C24_AppendsOwnVersion ==
  (last.op \in SharedResolutionOps /\ last.out = "Ok") =>
    /\ Len(last.built.inputs) = Len(last.before.inputs) + 1
    /\ last.value = Some(Input(Len(last.before.inputs)))
    /\ ResolvedInput =
         SharedObject(ObjId(last.args.object_id), last.responses[1].isv,
                      last.args.mutable)

\* C24, amended: a successful shared-object resolution returns an argument
\* that refers to one shared-object input of the buffer carrying the
\* requested address and the version returned by that resolution's own
\* remote read, never the version seen by an earlier resolution.  When the
\* buffer held no input for the address the input is appended, with the
\* requested mutability flag; when it held one, that input is used again,
\* nothing is appended, and it is mutable if it was or if this resolution
\* asks for it.
C24_OwnVersionAppendedOrReused ==
  (last.op \in SharedResolutionOps /\ last.out = "Ok") =>
    /\ last.value.some
    /\ last.value.v.a = "Input"
    /\ last.value.v.i < Len(last.built.inputs)
    /\ ResolvedInput.k = "Object"
    /\ ResolvedInput.okind = "SharedObject"
    /\ ResolvedInput.id = ObjId(last.args.object_id)
    /\ ResolvedInput.ver = last.responses[1].isv
    /\ ~(VersionChanged /\ HeldBefore # {})
    /\ IF HeldBefore = {}
         THEN /\ Len(last.built.inputs) = Len(last.before.inputs) + 1
              /\ last.value.v.i = Len(last.before.inputs)
              /\ ResolvedInput.mutable = last.args.mutable
       ELSE /\ Len(last.built.inputs) = Len(last.before.inputs)
            /\ last.value.v.i + 1 \in HeldBefore
            /\ ResolvedInput.mutable =
                 (last.args.mutable \/
                  last.before.inputs[last.value.v.i + 1].mutable)

\* C24: an address resolved as immutable is resolved again as mutable, on
\* the same buffer, and read again with the same version
C24_Witness ==
  /\ last.op = "prepare_shared_object_argument" /\ last.out = "Ok"
  /\ ResolvedBefore
  /\ last.args.earlier.out = "Ok"
  /\ HeldBefore # {}
  /\ ~last.before.inputs[last.value.v.i + 1].mutable
  /\ ResolvedInput.mutable
  /\ ResolvedInput.ver = 2

\* ------------------------------------------------------------------------
\* The proof and the order call

\* the position, in the buffer, of the i-th command the latest operation
\* appended, as a result argument
ResultOf(i) == Result(Len(last.before.commands) + i - 1)

\* C25: each successful place_limit_order emits exactly one authorization
\* proof invocation; it comes before the pool::place_limit_order invocation
\* in the buffer, it is given the balance-manager argument the order call is
\* given, and its result is the third argument of the order call.
C25_ProofThreadedIntoOrder ==
  (IsOrder /\ last.out = "Ok") =>
    /\ Cardinality(ProofCalls) = 1
    /\ \A i \in ProofCalls :
         /\ i < Len(NewCommands)
         /\ IsCall(NewCommands[Len(NewCommands)], "pool", "place_limit_order")
         /\ \A j \in 1..i :
              ~IsCall(NewCommands[j], "pool", "place_limit_order")
         /\ NewCommands[i].args[1] = LastCommand.args[2]
         /\ LastCommand.args[3] = ResultOf(i)

\* C25: an order through a trade cap succeeded on a buffer that already
\* held the two invocations of another order
C25_Witness ==
  /\ IsOrder /\ last.out = "Ok"
  /\ Len(last.before.commands) = 2
  /\ ProofCalls = {1}
  /\ NewCommands[1].function = "generate_proof_as_trader"
  /\ LastCommand.args[3] = Result(2)

\* ------------------------------------------------------------------------
\* Lookups

\* which of the four lookups of the latest order misses
PoolUnknown == last.args.pool_key \notin DOMAIN config.pools
BaseCoinUnknown ==
  /\ ~PoolUnknown
  /\ config.pools[last.args.pool_key].base_coin \notin DOMAIN config.coins
QuoteCoinUnknown ==
  /\ ~PoolUnknown
  /\ config.pools[last.args.pool_key].quote_coin \notin DOMAIN config.coins

\* C26: in place_limit_order the pool, balance-manager, base-coin and
\* quote-coin lookups all come before the first remote read and before the
\* first append: when any of these keys is unknown, the operation returns an
\* error, has made no remote read, and leaves the buffer exactly as it was.
C26_LookupsBeforeReads ==
  (IsOrder /\ (PoolUnknown \/ ~ManagerKnown \/ BaseCoinUnknown
                 \/ QuoteCoinUnknown)) =>
    /\ last.out = "Err"
    /\ last.err = IF PoolUnknown THEN "PoolNotFound"
                  ELSE IF ~ManagerKnown THEN "ManagerNotFound"
                  ELSE IF BaseCoinUnknown THEN "BaseCoinNotFound"
                  ELSE "QuoteCoinNotFound"
    /\ last.reads = <<>>
    /\ last.built = last.before
    /\ ptb = last.before

\* C26: an order missed its quote coin only, on a buffer that held an order,
\* against a ledger that has its pool and its manager
C26_Witness ==
  /\ IsOrder /\ QuoteCoinUnknown /\ ~BaseCoinUnknown /\ ManagerKnown
  /\ last.err = "QuoteCoinNotFound"
  /\ Len(last.before.commands) = 2
  /\ ptb = last.before

\* ------------------------------------------------------------------------
\* Failures after an intermediate invocation

\* the errors of a resolution that was attempted
ResolutionErrors ==
  {"InvalidObjectID", "FetchFailed", "MustBeShared", "NoOwner",
   "PtbArgument"}

\* the latest operation is a deposit that failed at the lookup or at the
\* resolution of its balance manager
DepositFailedAtManager ==
  /\ last.op = "deposit_into_manager"
  /\ last.out = "Err"
  /\ last.err \in {"ManagerNotFound"} \cup ResolutionErrors

\* C27: an operation that fails after emitting an intermediate invocation
\* leaves that invocation in the buffer without its final call:
\* place_limit_order failing at the parse of client_order_id leaves the
\* authorization-proof invocation and no pool::place_limit_order
\* invocation, and deposit_into_manager failing at the lookup or the
\* resolution of the balance manager leaves the SplitCoins command and no
\* balance_manager::deposit invocation.
C27_IntermediateInvocationStays ==
  /\ (IsOrder /\ last.err = "ParseClientOrderId") =>
       /\ last.out = "Err"
       /\ Len(NewCommands) = 1
       /\ IsProofCall(NewCommands[1])
       /\ ptb = last.built
  /\ DepositFailedAtManager =>
       /\ Len(NewCommands) = 1
       /\ NewCommands[1].c = "SplitCoins"
       /\ NewCommands[1].args[1] = GasCoin
       /\ ptb = last.built

\* C27: a deposit failed at the resolution of its balance manager, on a
\* buffer in which an order that failed at its client order id had left
\* its proof invocation
C27_Witness ==
  /\ DepositFailedAtManager
  /\ last.err = "MustBeShared"
  /\ Len(last.before.commands) = 1
  /\ IsProofCall(last.before.commands[1])
  /\ Len(ptb.commands) = 2
  /\ ptb.commands[2].c = "SplitCoins"

\* ------------------------------------------------------------------------
\* Equivalence of the two place_limit_order

\* what an input argument of the buffer b denotes: the object or the value
DenotedInput(b, arg) ==
  IF arg.a = "Input" THEN b.inputs[arg.i + 1] ELSE arg

\* a command of the buffer b, with what its arguments denote
DenotedCommand(b, cmd) ==
  [cmd EXCEPT !.args = [k \in 1..Len(cmd.args) |->
                          DenotedInput(b, cmd.args[k])]]

\* what an argument denotes: an input, or the command it is the result of
Denoted(b, arg) ==
  IF arg.a = "Result" THEN DenotedCommand(b, b.commands[arg.i + 1])
  ELSE DenotedInput(b, arg)

\* the commands appended to b after the first n, with what their arguments
\* denote
DenotedSince(b, n) ==
  [i \in 1..(Len(b.commands) - n) |->
     [b.commands[n + i] EXCEPT !.args =
        [k \in 1..Len(b.commands[n + i].args) |->
           Denoted(b, b.commands[n + i].args[k])]]]

BothPlaced == last.op = "place_limit_order/both" /\ HasReturned

\* C28: DeepBookClient::place_limit_order and
\* DeepBookContract::place_limit_order are equivalent on outcomes: for the
\* same configuration, parameters and ledger responses they succeed or fail
\* together, and on success they emit the same proof invocation and the
\* same pool::place_limit_order invocation (same type parameters, same 12
\* arguments denoting the same objects and values in the same order),
\* although one reads the trade cap before the clock and the other the
\* clock before the trade cap.
C28_SameOutcome ==
  BothPlaced =>
    /\ last.out = last.args.contract.out
    /\ last.out = "Ok" =>
         /\ DenotedSince(last.built, Len(last.before.commands)) =
              DenotedSince(last.args.contract.ptb,
                           Len(last.before.commands))
         /\ Len(NewCommands) = 2
         /\ IsProofCall(NewCommands[1])
         /\ Len(NewCommands[2].args) = 12
         /\ Len(NewCommands[2].targs) = 2

\* C28: an order through a trade cap succeeded in both; the two read the
\* trade cap and the clock in opposite orders and left these inputs, and so
\* the arguments that refer to them, at different positions
C28_Witness ==
  /\ BothPlaced /\ last.out = "Ok" /\ last.args.contract.out = "Ok"
  /\ Len(last.reads) = 4
  /\ last.reads[3] = last.args.contract.reads[4]
  /\ last.reads[4] = last.args.contract.reads[3]
  /\ last.reads[3] # last.reads[4]
  /\ last.built.commands # last.args.contract.ptb.commands
  /\ last.built.inputs # last.args.contract.ptb.inputs

\* ------------------------------------------------------------------------
\* Default tables

\* every pool of the table names a base coin and a quote coin of the coins
Closed(pools, coins) ==
  \A k \in DOMAIN pools :
    /\ pools[k].base_coin \in DOMAIN coins
    /\ pools[k].quote_coin \in DOMAIN coins

\* the configuration was built without overrides of its tables
NoOverrides == ~last.args.coins.some /\ ~last.args.pools.some

\* C29: the built-in default tables are closed: every pool of TESTNET_POOLS
\* names a base coin and a quote coin that are keys of TESTNET_COINS, every
\* pool of MAINNET_POOLS a base coin and a quote coin that are keys of
\* MAINNET_COINS, so a configuration built without overrides resolves both
\* coins of each of its pools.
C29_DefaultTablesClosed ==
  /\ Closed(TESTNET_POOLS, TESTNET_COINS)
  /\ Closed(MAINNET_POOLS, MAINNET_COINS)
  /\ NoOverrides =>
       \A k \in DOMAIN config.pools :
         /\ get_coin(config, config.pools[k].base_coin).some
         /\ get_coin(config, config.pools[k].quote_coin).some

\* C29: a configuration of the main network built without overrides was
\* asked for a pool it has, whose coins it has
C29_Witness ==
  /\ NoOverrides
  /\ last.args.env = "mainnet"
  /\ last.op = "get_pool"
  /\ last.value.some
  /\ config.pools = MAINNET_POOLS
  /\ Cardinality(DOMAIN config.pools) > 4
  /\ get_coin(config, last.value.v.base_coin).some
  /\ get_coin(config, last.value.v.quote_coin).some

\* ------------------------------------------------------------------------
\* mint_and_transfer_trade_cap

Minted == last.op = "mint_and_transfer_trade_cap"

\* the object fetched for the balance manager of the latest operation
ManagerFetched ==
  /\ ManagerKnown
  /\ Len(last.reads) = 1
  /\ last.responses[1].kind # "rpc_error"

FetchedShared == ManagerFetched /\ last.responses[1].owner = "Shared"

\* the buffer held the balance manager otherwise than as the shared object
\* of the version fetched now
HeldOtherwise ==
  \E j \in 1..Len(last.before.inputs) :
    /\ last.before.inputs[j].k = "Object"
    /\ last.before.inputs[j].id = ObjId(LastManager.address)
    /\ \/ last.before.inputs[j].okind # "SharedObject"
       \/ last.before.inputs[j].ver # last.responses[1].isv

\* the two invocations of mint_and_transfer_trade_cap, in their order,
\* appended by the latest operation
MintThenTransfer ==
  /\ last.out = "Ok"
  /\ Len(NewCommands) = 2
  /\ IsCall(NewCommands[1], "balance_manager", "mint_trade_cap")
  /\ Len(NewCommands[1].args) = 1
  /\ IsObjectArg(last.built, NewCommands[1].args[1],
                 ObjId(LastManager.address))
  /\ Denoted(last.built, NewCommands[1].args[1]).okind = "SharedObject"
  /\ Denoted(last.built, NewCommands[1].args[1]).mutable
  /\ IsCall(NewCommands[2], "transfer", "public_transfer")
  /\ Len(NewCommands[2].args) = 2
  /\ NewCommands[2].args[1] = ResultOf(1)
  /\ IsPureArg(last.built, NewCommands[2].args[2], last.args.receiver)

\* an error, and nothing appended
ErrorAndNothing ==
  /\ last.out = "Err"
  /\ last.built = last.before
  /\ ptb = last.before

\* C30: mint_and_transfer_trade_cap on a known manager whose fetched object
\* is shared appends exactly two invocations, in this order:
\* balance_manager::mint_trade_cap taking the manager as a mutable shared
\* argument, then transfer::public_transfer taking the result of the first
\* and the receiver; when the manager key is unknown, or the fetched object
\* is not shared or has no owner, it returns an error and appends nothing.
C30_MintThenTransfer ==
  Minted =>
    /\ FetchedShared => MintThenTransfer
    /\ (~ManagerKnown \/ (ManagerFetched /\ ~FetchedShared)) =>
         ErrorAndNothing

\* C30, amended: the same, on a buffer that does not hold the manager
\* otherwise than as the shared object of the version fetched; on a buffer
\* that does, the buffer refuses the argument, and the operation returns an
\* error and appends nothing.
C30_MintThenTransferUnlessRefused ==
  Minted =>
    /\ (FetchedShared /\ ~HeldOtherwise) => MintThenTransfer
    /\ (FetchedShared /\ HeldOtherwise) =>
         ErrorAndNothing /\ last.err = "PtbArgument"
    /\ (~ManagerKnown \/ (ManagerFetched /\ ~FetchedShared)) =>
         ErrorAndNothing

\* C30: a trade cap was minted and transferred on a buffer that held a
\* deposit into the same manager
C30_Witness ==
  /\ Minted /\ FetchedShared /\ last.out = "Ok"
  /\ Len(last.before.commands) = 2
  /\ Len(ptb.commands) = 4
  /\ NewCommands[2].args[1] = Result(2)
  /\ \E j \in 1..Len(last.before.inputs) :
       last.before.inputs[j].id = ObjId(LastManager.address)

====
